---- MODULE Spec2Model ----
(***************************************************************************)
(* Facebook posts scraper: the run of FacebookPostsScraper.search_posts    *)
(* (src/facebook_scraper.py) and of the Apify Actor entry point            *)
(* main -> EnhancedFacebookPostsScraper.scrape_posts (src/main.py).        *)
(*                                                                         *)
(* The browser, the page and the file system are the environment: every    *)
(* call into them that the code guards with try/except may raise, and a    *)
(* page shows whatever the site serves.  Text is a tuple of one-character  *)
(* strings, so that `in` (substring) and lower() are computed.             *)
(***************************************************************************)
EXTENDS Integers, Sequences, FiniteSets, TLC

\* ------------------------------------------------------------- bounds
MaxId == 2          \* post ids 1..MaxId; 0 is an element that yields no post
MaxSnapLen == 2     \* elements matched by the winning selector in one pass
MaxPosts == 2       \* max_posts ranges over 1..MaxPosts
MaxFragments == 2   \* fragments concatenated into the page content
MaxCookies == 1     \* cookies in the facebookCookies input
MaxHits == 2        \* selectors of a page that raise or match something
MaxCountTokens == 3 \* tokens put together into a count text
MaxTimeTokens == 3  \* tokens put together into a time text
MaxParams == 2      \* parameters in the query of a post link
MaxCookieList == 2  \* cookies in a list given to parse_cookies on its own

\* ------------------------------------------------------------- text
Lower(ch) ==
    CASE ch = "A" -> "a" [] ch = "B" -> "b" [] ch = "C" -> "c" [] ch = "D" -> "d"
      [] ch = "E" -> "e" [] ch = "F" -> "f" [] ch = "G" -> "g" [] ch = "H" -> "h"
      [] ch = "I" -> "i" [] ch = "J" -> "j" [] ch = "K" -> "k" [] ch = "L" -> "l"
      [] ch = "M" -> "m" [] ch = "N" -> "n" [] ch = "O" -> "o" [] ch = "P" -> "p"
      [] ch = "Q" -> "q" [] ch = "R" -> "r" [] ch = "S" -> "s" [] ch = "T" -> "t"
      [] ch = "U" -> "u" [] ch = "V" -> "v" [] ch = "W" -> "w" [] ch = "X" -> "x"
      [] ch = "Y" -> "y" [] ch = "Z" -> "z"
      [] OTHER -> ch

Upper(ch) ==
    CASE ch = "a" -> "A" [] ch = "b" -> "B" [] ch = "c" -> "C" [] ch = "d" -> "D"
      [] ch = "e" -> "E" [] ch = "f" -> "F" [] ch = "g" -> "G" [] ch = "h" -> "H"
      [] ch = "i" -> "I" [] ch = "j" -> "J" [] ch = "k" -> "K" [] ch = "l" -> "L"
      [] ch = "m" -> "M" [] ch = "n" -> "N" [] ch = "o" -> "O" [] ch = "p" -> "P"
      [] ch = "q" -> "Q" [] ch = "r" -> "R" [] ch = "s" -> "S" [] ch = "t" -> "T"
      [] ch = "u" -> "U" [] ch = "v" -> "V" [] ch = "w" -> "W" [] ch = "x" -> "X"
      [] ch = "y" -> "Y" [] ch = "z" -> "Z"
      [] OTHER -> ch

\* str.lower()
LowerStr(s) == [i \in 1..Len(s) |-> Lower(s[i])]

\* Python's `sub in s`
Contains(s, sub) ==
    \E i \in 0..(Len(s) - Len(sub)) : SubSeq(s, i + 1, i + Len(sub)) = sub

auth_indicators ==
    { <<"d","a","t","a","-","t","e","s","t","i","d","=","\"","r","o","y","a","l",
        "_","h","e","a","d","e","r","\"">>,
      <<"c","o","m","p","o","s","e","r">>,
      <<"n","e","w","s","f","e","e","d">>,
      <<"p","r","o","f","i","l","e">> }

login_indicators ==
    { <<"l","o","g","i","n">>,
      <<"L","o","g"," ","i","n">>,
      <<"S","i","g","n"," ","u","p">>,
      <<"p","a","s","s","w","o","r","d">>,
      <<"e","m","a","i","l">> }

\* Pieces of markup the home page may contain.
Fragments ==
    { <<"c","o","m","p","o","s","e","r">>,
      <<"n","e","w","s","f","e","e","d">>,
      <<"L","o","g"," ","i","n">>,
      <<"L","O","G","I","N">>,
      <<"S","i","g","n"," ","u","p">>,
      <<"p","a","s","s","w","o","r","d">>,
      <<"E","m","a","i","l">>,
      <<"<","p",">">> }

RECURSIVE ContentsUpTo(_)
ContentsUpTo(n) ==
    IF n = 0 THEN { <<>> }
    ELSE LET shorter == ContentsUpTo(n - 1)
         IN  shorter \cup { c \o f : c \in shorter, f \in Fragments }

PageContents == ContentsUpTo(MaxFragments)

\* verify_authentication, lines 205-208: the verdict on one page content.
IsAuthenticated(page_content) ==
    LET is_authenticated ==
            \E indicator \in auth_indicators : Contains(page_content, indicator)
        needs_login ==
            \E indicator \in login_indicators :
                Contains(LowerStr(page_content), indicator)
    IN  is_authenticated /\ ~needs_login

\* The verdicts verify_authentication reaches; the contents of one fragment
\* already give both.
AuthVerdicts == { IsAuthenticated(page_content) : page_content \in ContentsUpTo(1) }

RECURSIVE SeqsUpTo(_, _)
SeqsUpTo(S, n) ==
    IF n = 0 THEN { <<>> }
    ELSE LET shorter == SeqsUpTo(S, n - 1)
         IN  shorter \cup { Append(q, x) : q \in shorter, x \in S }

\* ------------------------------------------------------------- cookies input
\* The sameSite entry of one cookie of the facebookCookies JSON: the key is
\* absent, or its value is null, or a string.
SameSiteAbsent == [kind |-> "absent", text |-> <<>>]
SameSiteNull == [kind |-> "null", text |-> <<>>]
SameSiteStr(t) == [kind |-> "str", text |-> t]

SameSiteInputs ==
    { SameSiteAbsent, SameSiteNull,
      SameSiteStr(<<"n","o","_","r","e","s","t","r","i","c","t","i","o","n">>),
      SameSiteStr(<<"l","a","x">>),
      SameSiteStr(<<"L","a","x">>),
      SameSiteStr(<<"S","T","R","I","C","T">>),
      SameSiteStr(<<"u","n","s","p","e","c","i","f","i","e","d">>) }

\* _convert_same_site: mapping.get(same_site.lower(), 'None'); a value that is
\* no string has no lower() and the call raises AttributeError.
ConvertSameSite(same_site) ==
    IF same_site.kind = "null" THEN "AttributeError"
    ELSE LET key == LowerStr(same_site.text)
         IN  CASE key = <<"n","o","_","r","e","s","t","r","i","c","t","i","o","n">>
                    -> "None"
               [] key = <<"l","a","x">> -> "Lax"
               [] key = <<"s","t","r","i","c","t">> -> "Strict"
               [] OTHER -> "None"

\* parse_cookies line 120: cookie.get('sameSite', 'no_restriction')
SameSiteOf(cookie) ==
    IF cookie.kind = "absent"
    THEN SameSiteStr(<<"n","o","_","r","e","s","t","r","i","c","t","i","o","n">>)
    ELSE cookie

\* The facebookCookies input: empty, text that is no JSON, or a JSON list.
CookieInputs ==
    { [form |-> "empty", cookies |-> <<>>], [form |-> "invalid", cookies |-> <<>>] }
    \cup { [form |-> "list", cookies |-> c] : c \in SeqsUpTo(SameSiteInputs, MaxCookies) }

\* parse_cookies: [] for no input and for a JSONDecodeError; otherwise the
\* converted cookies, and any other error leaves the function.
ParseCookies(facebook_cookies) ==
    IF facebook_cookies.form # "list"
    THEN [raised |-> FALSE, cookies |-> <<>>]
    ELSE LET converted ==
                 [i \in 1..Len(facebook_cookies.cookies) |->
                     ConvertSameSite(SameSiteOf(facebook_cookies.cookies[i]))]
         IN  IF \E i \in 1..Len(converted) : converted[i] = "AttributeError"
             THEN [raised |-> TRUE, cookies |-> <<>>]
             ELSE [raised |-> FALSE, cookies |-> converted]

\* ------------------------------------------------------------- records
\* A post record is identified by its postId; 0 stands for an element from
\* which _extract_single_post gets no record (no post URL, or an error).
PostIds == 1..MaxId
Elements == 0..MaxId

\* What the winning selector's elements yield in one pass, in page order.
Snapshots == SeqsUpTo(Elements, MaxSnapLen)

Range(q) == { q[i] : i \in 1..Len(q) }

\* _extract_posts_from_page, lines 566-575: keep the elements that yield a
\* record with a postId.
ExtractPosts(elements) == SelectSeq(elements, LAMBDA e : e # 0)

\* Lines 502-506 with the membership test made against the ids known when the
\* pass began: ids taken in this pass are not consulted.
UniqueNewPostsStaleSeen(new_posts, seen) ==
    SelectSeq(new_posts, LAMBDA post : post # 0 /\ post \notin seen)

\* Lines 502-506 without the membership test.
UniqueNewPostsNoSeen(new_posts, seen) ==
    SelectSeq(new_posts, LAMBDA post : post # 0)

\* Lines 502-506 with a break after the first record taken.
UniqueNewPostsFirstOnly(new_posts, seen) ==
    LET fresh == SelectSeq(new_posts, LAMBDA post : post # 0 /\ post \notin seen)
    IN  IF fresh = <<>> THEN <<>> ELSE << Head(fresh) >>

\* _scrape_posts, lines 502-506: the records of new_posts whose postId is truthy
\* and not yet in scraped_post_ids, each id added to the set as it is taken.
RECURSIVE UniqueNewPosts(_, _)
UniqueNewPosts(new_posts, seen) ==
    IF new_posts = <<>> THEN <<>>
    ELSE LET post == Head(new_posts)
         IN  IF post # 0 /\ post \notin seen
             THEN <<post>> \o UniqueNewPosts(Tail(new_posts), seen \cup {post})
             ELSE UniqueNewPosts(Tail(new_posts), seen)

\* Line 524 returning posts as it is.
TruncateNone(posts_, n) == posts_

\* posts[:max_posts], line 524
Truncate(posts_, n) == SubSeq(posts_, 1, IF Len(posts_) < n THEN Len(posts_) ELSE n)

max_no_new_posts == 5
max_retries == 3

\* urls_to_try, lines 399-402: the URL and its m.facebook.com variant
NumVariants == 2

\* The end-to-end page: 4 feed units, then 3 more of which one repeats a record
\* of the first pass; nothing new afterwards.
E2EMaxPosts == 10
E2EScript == << <<1, 2, 3, 4>>, <<4, 5, 6>> >>

\* ------------------------------------------------------------- state
VARIABLES
    entry,                \* "cli": search_posts;  "actor": main of src/main.py
    pc,                   \* position of the run
    debug,                \* self.debug
    request,              \* which of query and url the caller gave
    max_posts,            \* argument max_posts / input maxPosts
    feed,                 \* the site: [scripted, pos] into E2EScript
    browser, context, page,   \* browser resources: "none", "open", "closed"
    cookie_file,          \* the cookie store: [exists, cookies]
    cookie_save,          \* what cleanup did about the cookies (observed)
    jar,                  \* cookies of the browser context
    auth_content,         \* page_content read by verify_authentication
    is_authenticated,     \* its verdict: "unset", "yes", "no"
    attempt, variant,     \* loop position in _navigate_to_page
    target,               \* URL the run navigates to: "none", "given", "built"
    navOutcome,           \* "none", "loaded", "exhausted", "raised"
    landing,              \* the load _navigate_to_page ended with (observed)
    call,                 \* a helper of the scraper called on its own: name, argument
    ret,                  \* what that call gave back
    posts,                \* posts of _scrape_posts
    scraped_post_ids,     \* self.scraped_post_ids
    no_new_posts_count,
    emptyPasses,          \* passes since posts last grew (observed, not read)
    pending,              \* what the try block returned or raised
    outcome               \* what the caller received

vars == << entry, pc, debug, request, max_posts, feed,
           browser, context, page, cookie_file, cookie_save, jar, auth_content,
           is_authenticated, attempt, variant, target, navOutcome, landing,
           posts, scraped_post_ids, no_new_posts_count, emptyPasses, pending,
           outcome, call, ret >>

\* Cookies the site sets with every page it serves.
SiteCookies == {"datr"}
Requests == {"query", "url", "both", "neither"}

NoOutcome == [kind |-> "none", reason |-> "none", posts |-> <<>>]

\* One page load of _navigate_to_page: goto or text_content raised, or the
\* page came with an error status or not, with a body text of more than 100
\* characters or not, showing a blocking phrase ("login to continue", ...) or
\* not.
Loads ==
    { [raised |-> TRUE, long |-> FALSE, status_ok |-> FALSE, blocked |-> FALSE] }
    \cup [raised : {FALSE}, long : BOOLEAN, status_ok : BOOLEAN, blocked : BOOLEAN]

\* No helper is called on its own during a run.
NoCall == [fn |-> "none", arg |-> <<>>]
NoReturn == [done |-> FALSE, raised |-> FALSE, value |-> <<>>]

NoLoad == [raised |-> FALSE, long |-> FALSE, status_ok |-> TRUE, blocked |-> FALSE]

\* search_posts line 263: the list is the whole return value.
Returned(result) == [kind |-> "returned", reason |-> "none", posts |-> result]

\* search_posts lines 265-276: the exception is re-raised; posts of
\* _scrape_posts is a local of the frame the exception unwinds.
Raised(reason) == [kind |-> "raised", reason |-> reason, posts |-> <<>>]

Init ==
    /\ entry \in {"cli", "actor"}
    /\ pc = "idle"
    /\ debug \in BOOLEAN
    /\ request = "neither"
    /\ max_posts = 1
    /\ feed = [scripted |-> FALSE, pos |-> 0]
    /\ browser = "none" /\ context = "none" /\ page = "none"
    /\ cookie_file \in { [exists |-> FALSE, cookies |-> {}],
                         [exists |-> TRUE, cookies |-> {"xs"}] }
    /\ cookie_save = "none"
    /\ jar = {}
    /\ auth_content = <<>>
    /\ is_authenticated = "unset"
    /\ attempt = 0 /\ variant = 0
    /\ target = "none"
    /\ navOutcome = "none"
    /\ landing = NoLoad
    /\ call = NoCall /\ ret = NoReturn
    /\ posts = <<>>
    /\ scraped_post_ids = {}
    /\ no_new_posts_count = 0
    /\ emptyPasses = 0
    /\ pending = NoOutcome
    /\ outcome = NoOutcome

\* The try block ends by raising: control goes to finally (cleanup).
Fail(reason) ==
    /\ pending' = Raised(reason)
    /\ pc' = "cleanup"

\* ------------------------------------------------------------- search_posts
\* The calls of setup_browser that can raise, in their order (lines 88-176).
SetupFailures == {"none", "launch", "new_context", "new_page", "init_script"}

\* A caller invokes search_posts(search_query, search_url, max_posts, ...,
\* use_cookies) on the scraper object, and setup_browser runs (line 226):
\* launch, new_context, cookies from the store, new_page and the init script;
\* any of the browser calls may raise.  use_cookies is read here and at line
\* 229, which decides where the run goes next.
SearchPostsWith(use_cookies, failAt) ==
    /\ entry = "cli"
    /\ pc = "idle"
    /\ request' \in Requests
    /\ \/ /\ max_posts' \in 1..MaxPosts
          /\ feed' = [scripted |-> FALSE, pos |-> 0]
       \/ /\ max_posts' = E2EMaxPosts
          /\ feed' = [scripted |-> TRUE, pos |-> 0]
    /\ is_authenticated' = "unset"
    /\ attempt' = 0 /\ variant' = 0
    /\ target' = "none"
    /\ navOutcome' = "none"
    /\ landing' = NoLoad
    /\ posts' = <<>>
    /\ no_new_posts_count' = 0
    /\ emptyPasses' = 0
    /\ outcome' = NoOutcome
    /\ \E addOk \in BOOLEAN :
          LET loaded == use_cookies /\ cookie_file.exists
          IN
          /\ browser' = IF failAt = "launch" THEN browser ELSE "open"
          /\ context' = IF failAt \in {"launch", "new_context"}
                         THEN context ELSE "open"
          /\ page' = IF failAt \in {"launch", "new_context", "new_page"}
                      THEN page ELSE "open"
          /\ jar' = IF failAt \in {"launch", "new_context"} THEN jar
                     ELSE IF loaded /\ addOk THEN cookie_file.cookies ELSE {}
          /\ IF failAt = "none"
             THEN /\ pc' = IF use_cookies THEN "verify_authentication"
                                          ELSE "build_url"
                  /\ pending' = NoOutcome
             ELSE Fail("setup_browser")
    /\ cookie_save' = "none"
    /\ UNCHANGED << call, entry, debug, cookie_file, scraped_post_ids, auth_content >>

\* A call of search_posts.
SearchPosts ==
    /\ \E use_cookies \in BOOLEAN, failAt \in SetupFailures :
          SearchPostsWith(use_cookies, failAt)
    /\ UNCHANGED ret

\* verify_authentication: load the home page and judge its content; every
\* error inside is caught and reported as False.
VerifyAuthentication ==
    /\ pc = "verify_authentication"
    /\ \/ \E verdict \in AuthVerdicts :
             /\ is_authenticated' = IF verdict THEN "yes" ELSE "no"
             /\ jar' = jar \cup SiteCookies
       \/ /\ is_authenticated' = "no"     \* goto raised: caught, False
          /\ UNCHANGED jar
    /\ pc' = "build_url"
    /\ UNCHANGED << call, ret, entry, debug, request, max_posts, feed, auth_content,
                    browser, context, page, cookie_file, cookie_save, attempt, variant,
                    target, navOutcome, landing, posts, scraped_post_ids,
                    no_new_posts_count, emptyPasses, pending, outcome >>

\* The choice of lines 234-239 if a request with both a query and a URL were
\* turned down.
UrlForExactlyOne(req) ==
    CASE req = "url" -> "given"
      [] req = "query" -> "built"
      [] OTHER -> "ValueError"

\* search_posts lines 234-239: the given URL if there is one, else the URL
\* built from the query if there is one, else ValueError.
UrlFor(req) ==
    IF req \in {"url", "both"} THEN "given"
    ELSE IF req = "query" THEN "built"
    ELSE "ValueError"

BuildUrl ==
    /\ pc = "build_url"
    /\ is_authenticated' = "unset"     \* not read after line 231
    /\ IF UrlFor(request) = "ValueError"
       THEN UNCHANGED target /\ Fail("ValueError")
       ELSE target' = UrlFor(request) /\ pc' = "navigate" /\ UNCHANGED pending
    /\ UNCHANGED << call, ret, entry, debug, request, max_posts, feed,
                    browser, context, page, cookie_file, cookie_save, jar, auth_content,
                    attempt, variant, navOutcome, landing, posts, scraped_post_ids,
                    no_new_posts_count, emptyPasses, outcome >>

\* ------------------------------------------------------------- _navigate_to_page
\* The success test of one attempt, lines 406-420, on any load that did not
\* raise.
NavigationSucceedsAnyLoad(load) == ~load.raised

\* The success test of one attempt, lines 406-420: goto and text_content did
\* not raise and the body text has more than 100 characters.  The response
\* that goto returns and the phrases of the page are not looked at.
NavigationSucceeds(load) == ~load.raised /\ load.long

\* The test of line 424 if the outer loop made one round more.
LastAttemptOneRoundMore == attempt = max_retries /\ variant = NumVariants - 1

\* Line 424: the last variant of the last round.
LastAttempt == attempt = max_retries - 1 /\ variant = NumVariants - 1

\* The next (attempt, i) if the loop over the variants were the outer one.
NextAttemptVariantMajor ==
    IF attempt + 1 < max_retries
    THEN /\ attempt' = attempt + 1 /\ variant' = variant
    ELSE /\ attempt' = 0 /\ variant' = variant + 1

\* The next (attempt, i) of the nested for loops, lines 404-405: the loop
\* over the attempts is the outer one, the loop over the variants the inner.
NextAttempt ==
    IF variant + 1 < NumVariants
    THEN /\ variant' = variant + 1 /\ attempt' = attempt
    ELSE /\ variant' = 0 /\ attempt' = attempt + 1

\* One pass through the body of the inner loop, lines 406-426: the page load
\* raises, or loads a body of at most 100 characters, or loads more; landing
\* keeps the load on which the navigation ended.
NavigateAttemptWith(load) ==
    /\ pc = "navigate"
    /\ jar' = IF ~load.raised THEN jar \cup SiteCookies ELSE jar
    /\ CASE NavigationSucceeds(load) ->
              /\ navOutcome' = "loaded"
              /\ landing' = load
              /\ pc' = "content"
              /\ attempt' = 0 /\ variant' = 0
              /\ UNCHANGED pending
         [] ~NavigationSucceeds(load) /\ ~load.raised /\ ~LastAttempt ->
              /\ NextAttempt
              /\ UNCHANGED << navOutcome, landing, pc, pending >>
         [] ~NavigationSucceeds(load) /\ ~load.raised /\ LastAttempt ->
              \* the loops end and the function returns None
              /\ navOutcome' = "exhausted"
              /\ landing' = load
              /\ pc' = "content"
              /\ attempt' = 0 /\ variant' = 0
              /\ UNCHANGED pending
         [] load.raised /\ ~LastAttempt ->
              /\ NextAttempt
              /\ UNCHANGED << navOutcome, landing, pc, pending >>
         [] load.raised /\ LastAttempt ->
              /\ navOutcome' = "raised"
              /\ landing' = load
              /\ attempt' = 0 /\ variant' = 0
              /\ Fail("navigation")
    /\ UNCHANGED << call, entry, debug, request, max_posts, feed,
                    browser, context, page, cookie_file, cookie_save, auth_content,
                    is_authenticated, target, posts, scraped_post_ids,
                    no_new_posts_count, emptyPasses, outcome >>

\* A page load of _navigate_to_page in a run of search_posts.
NavigateAttempt ==
    /\ \E load \in Loads : NavigateAttemptWith(load)
    /\ UNCHANGED ret

\* search_posts lines 246-258: overlays and the wait for content absorb their
\* errors; the debug screenshot and page.content() may raise.
PrepareContent ==
    /\ pc = "content"
    /\ \/ pc' = "scrape" /\ UNCHANGED pending
       \/ Fail("page")
    /\ navOutcome' = "none"            \* _navigate_to_page returns nothing
    /\ landing' = NoLoad
    /\ UNCHANGED << call, ret, entry, debug, request, max_posts, feed,
                    browser, context, page, cookie_file, cookie_save, jar, auth_content,
                    is_authenticated, attempt, variant, target,
                    posts, scraped_post_ids, no_new_posts_count, emptyPasses,
                    outcome >>

\* ------------------------------------------------------------- _scrape_posts
\* The loop condition of line 493 without its test of len(posts).
LoopContinuesCountOnly ==
    no_new_posts_count < max_no_new_posts

\* while len(posts) < max_posts and no_new_posts_count < max_no_new_posts
LoopContinues ==
    Len(posts) < max_posts /\ no_new_posts_count < max_no_new_posts

\* What the page shows in the coming pass.
PassSnapshots ==
    IF ~feed.scripted THEN Snapshots
    ELSE IF feed.pos < Len(E2EScript) THEN { E2EScript[feed.pos + 1] }
    ELSE { <<>>, E2EScript[1], E2EScript[2], E2EScript[1] \o E2EScript[2] }

\* Lines 508-513 without the reset of line 510.
CountAfterNoReset(unique_new_posts, count) ==
    IF unique_new_posts # <<>> THEN count ELSE count + 1

\* lines 508-513
CountAfter(unique_new_posts, count) ==
    IF unique_new_posts # <<>> THEN 0 ELSE count + 1

\* posts.extend(unique_new_posts) with the new records put in front.
ExtendInFront(posts_, unique_new_posts) == unique_new_posts \o posts_

\* posts.extend(unique_new_posts), line 509
Extend(posts_, unique_new_posts) == posts_ \o unique_new_posts

\* Lines 502-506 without the add of line 506.
SeenAfterForgetting(seen, unique_new_posts) == seen

\* self.scraped_post_ids after lines 502-506: the id of every record taken
\* is added, on the scraper object.
SeenAfter(seen, unique_new_posts) == seen \cup Range(unique_new_posts)

\* The calls of the loop body that can raise out of it.
PassFailures == {"none", "text_content", "screenshot"}

\* One iteration of the loop, lines 494-522, on a page whose winning selector
\* matches elements.
Pass(elements, fail) ==
    /\ pc = "scrape"
    /\ LoopContinues
    /\    LET new_posts == ExtractPosts(elements)
              unique_new_posts == UniqueNewPosts(new_posts, scraped_post_ids)
              count == CountAfter(unique_new_posts, no_new_posts_count)
          IN
          IF fail = "text_content"
          THEN /\ debug                              \* line 497
               /\ Fail("page")
               /\ UNCHANGED << feed, posts, scraped_post_ids,
                               no_new_posts_count, emptyPasses >>
          ELSE /\ feed' = [feed EXCEPT !.pos =
                              IF @ < Len(E2EScript) THEN @ + 1 ELSE @]
               /\ scraped_post_ids' =
                      SeenAfter(scraped_post_ids, unique_new_posts)
               /\ no_new_posts_count' = count
               /\ IF fail = "screenshot"
                  THEN /\ debug /\ unique_new_posts = <<>> /\ count = 2
                       /\ Fail("page")                \* line 517
                       /\ UNCHANGED << posts, emptyPasses >>
                  ELSE /\ posts' = Extend(posts, unique_new_posts)
                       /\ emptyPasses' =
                              IF Len(posts') > Len(posts) THEN 0
                              ELSE emptyPasses + 1
                       /\ UNCHANGED << pc, pending >>
    /\ UNCHANGED << call, entry, debug, request, max_posts,
                    browser, context, page, cookie_file, cookie_save, jar, auth_content,
                    is_authenticated, attempt, variant, target, navOutcome, landing,
                    outcome >>

\* A pass of the loop in a run of search_posts.
ScrapePass ==
    /\ \E elements \in PassSnapshots, fail \in PassFailures : Pass(elements, fail)
    /\ UNCHANGED ret

\* The loop ends; _scrape_posts returns posts[:max_posts] and search_posts
\* returns it, lines 524 and 260-263.
ScrapeReturn ==
    /\ pc = "scrape"
    /\ ~LoopContinues
    /\ pending' = Returned(Truncate(posts, max_posts))
    /\ pc' = "cleanup"
    /\ UNCHANGED << call, ret, entry, debug, request, max_posts, feed,
                    browser, context, page, cookie_file, cookie_save, jar, auth_content,
                    is_authenticated, attempt, variant, target, navOutcome, landing,
                    posts, scraped_post_ids, no_new_posts_count, emptyPasses,
                    outcome >>

\* ------------------------------------------------------------- cleanup
\* Lines 1118-1124 without the call of line 1122.
StoreAfterCleanupNoSave(store, ctx, cookies, readOk, writeOk) == store

\* save_cookies_to_file: the file holds the list, unless the write fails.
SaveCookies(store, cookies, writeOk) ==
    IF writeOk THEN [exists |-> TRUE, cookies |-> cookies] ELSE store

\* cleanup lines 1118-1124: with a context, read its cookies and save them if
\* there are any; an error of the read is logged.
StoreAfterCleanup(store, ctx, cookies, readOk, writeOk) ==
    IF ctx # "none" /\ readOk /\ cookies # {}
    THEN SaveCookies(store, cookies, writeOk)
    ELSE store

\* cleanup lines 1118-1124, what happens to the cookies: nothing without a
\* context or with an empty list ("skipped"), an error of the read or of the
\* write that is logged ("failed"), or the list is in the file ("written").
CookieSave(ctx, cookies, readOk, writeOk) ==
    IF ctx = "none" \/ (readOk /\ cookies = {}) THEN "skipped"
    ELSE IF readOk /\ writeOk THEN "written"
    ELSE "failed"

\* cleanup, called from finally: save the cookies, then close page, context
\* and browser in turn; an error of a close skips the closes after it.
CleanupWith(readOk) ==
    /\ pc = "cleanup"
    /\ \E writeOk \in BOOLEAN,
          closeFailAt \in {"none", "page", "context", "browser"} :
          /\ readOk => context = "open"
          /\ closeFailAt = "page" => page = "open"
          /\ closeFailAt = "context" => context = "open"
          /\ closeFailAt = "browser" => browser = "open"
          /\ cookie_file' =
                 StoreAfterCleanup(cookie_file, context, jar, readOk, writeOk)
          /\ cookie_save' = CookieSave(context, jar, readOk, writeOk)
          /\ page' = IF page = "open" /\ closeFailAt # "page"
                      THEN "closed" ELSE page
          /\ context' = IF context = "open" /\ closeFailAt \notin {"page", "context"}
                         THEN "closed" ELSE context
          /\ browser' = IF browser = "open" /\ closeFailAt = "none"
                         THEN "closed" ELSE browser
          /\ jar' = IF context' = "open" THEN jar ELSE {}
    /\ outcome' = pending
    /\ pc' = "done"
    /\ UNCHANGED << call, entry, debug, request, max_posts, feed,
                    auth_content, is_authenticated, attempt, variant,
                    target, navOutcome, landing, posts, scraped_post_ids,
                    no_new_posts_count, emptyPasses, pending >>

\* The finally block of search_posts, line 278.
Cleanup ==
    /\ \E readOk \in BOOLEAN : CleanupWith(readOk)
    /\ UNCHANGED ret

\* The caller has the outcome (run_interactive lines 1229-1253, main lines
\* 1300, 1313); the frames of the run and their locals are gone, the scraper
\* object and the cookie file remain.
CallerContinues ==
    /\ entry = "cli"
    /\ pc = "done"
    /\ pc' = "idle"
    /\ request' = "neither"
    /\ max_posts' = 1
    /\ feed' = [scripted |-> FALSE, pos |-> 0]
    /\ target' = "none"
    /\ posts' = <<>>
    /\ no_new_posts_count' = 0
    /\ emptyPasses' = 0
    /\ pending' = NoOutcome
    /\ outcome' = NoOutcome
    /\ cookie_save' = "none"
    /\ UNCHANGED << call, ret, entry, debug, browser, context, page, cookie_file,
                    jar, auth_content, is_authenticated, attempt, variant,
                    navOutcome, landing, scraped_post_ids >>

\* ------------------------------------------------------------- Actor (src/main.py)
\* The whole-page record extract_posts adds when the body text is long.
BasicPost == 0 - 1

\* The error leaves scrape_posts: control goes to its finally block.
ActorFail(reason) ==
    /\ pending' = Raised(reason)
    /\ pc' = "a_finally"

\* main lines 600-608: the input is turned down when both searchQuery and
\* searchUrl are empty.
HasSearchInput(req) == req # "neither"

\* main lines 597-611: read the input, reject it when neither searchQuery nor
\* searchUrl is given, else construct the scraper.
ActorMain ==
    /\ entry = "actor"
    /\ pc = "idle"
    /\ request' \in Requests
    /\ max_posts' \in 1..MaxPosts
    /\ IF ~HasSearchInput(request')
       THEN /\ outcome' = [kind |-> "rejected", reason |-> "input", posts |-> <<>>]
            /\ pc' = "done"
       ELSE /\ outcome' = NoOutcome
            /\ pc' = "a_setup_browser"
    /\ UNCHANGED << call, ret, entry, debug, feed, browser, context, page, cookie_file, cookie_save,
                    jar, auth_content, is_authenticated, attempt, variant,
                    target, navOutcome, landing, posts, scraped_post_ids,
                    no_new_posts_count, emptyPasses, pending >>

\* scrape_posts lines 538-539: setup_browser (launch, new_context) and
\* new_page; each may raise.
ActorSetupBrowser ==
    /\ pc = "a_setup_browser"
    /\ \E failAt \in {"none", "launch", "new_context", "new_page"} :
          /\ browser' = IF failAt = "launch" THEN browser ELSE "open"
          /\ context' = IF failAt \in {"launch", "new_context"}
                         THEN context ELSE "open"
          /\ page' = IF failAt = "none" THEN "open" ELSE page
          /\ IF failAt = "none"
             THEN pc' = "a_set_cookies" /\ UNCHANGED pending
             ELSE ActorFail("setup_browser")
    /\ UNCHANGED << call, ret, entry, debug, request, max_posts, feed, cookie_file, cookie_save, jar,
                    auth_content, is_authenticated, attempt, variant, target,
                    navOutcome, landing, posts, scraped_post_ids, no_new_posts_count,
                    emptyPasses, outcome >>

\* set_cookies as called at lines 542-543, and build_search_url (line 546).
\* parse_cookies is called outside the try of set_cookies; everything after it
\* is guarded, and the verdict is dropped by the caller.
ActorSetCookies ==
    /\ pc = "a_set_cookies"
    /\ \E useCookies \in BOOLEAN, facebook_cookies \in CookieInputs,
          verdict \in BOOLEAN :
          LET parsed == ParseCookies(facebook_cookies)
          IN
          IF useCookies /\ parsed.raised
          THEN /\ ActorFail("set_cookies")
               /\ UNCHANGED << jar, is_authenticated, target >>
          ELSE /\ IF useCookies /\ parsed.cookies # <<>>
                  THEN /\ is_authenticated' = IF verdict THEN "yes" ELSE "no"
                       /\ jar' \in { jar, jar \cup SiteCookies,
                                      jar \cup SiteCookies \cup {"xs"} }
                  ELSE /\ is_authenticated' = "no"
                       /\ UNCHANGED jar
               /\ target' = "built"
               /\ pc' = "a_navigate"
               /\ UNCHANGED pending
    /\ UNCHANGED << call, ret, entry, debug, request, max_posts, feed, browser, context,
                    page, cookie_file, cookie_save, auth_content, attempt, variant,
                    navOutcome, landing, posts, scraped_post_ids, no_new_posts_count,
                    emptyPasses, outcome >>

\* One pass of the retry loop of scrape_posts, lines 551-568.
ActorNavigateAttempt ==
    /\ pc = "a_navigate"
    /\ \E load \in {"raise", "ok"} :
          CASE load = "ok" ->
                 /\ jar' = jar \cup SiteCookies
                 /\ navOutcome' = "loaded"
                 /\ attempt' = 0
                 /\ pc' = "a_extract"
                 /\ UNCHANGED pending
            [] load = "raise" /\ attempt < max_retries - 1 ->
                 /\ attempt' = attempt + 1
                 /\ UNCHANGED << jar, navOutcome, pc, pending >>
            [] load = "raise" /\ attempt = max_retries - 1 ->
                 /\ attempt' = 0
                 /\ navOutcome' = "raised"
                 /\ ActorFail("navigation")
                 /\ UNCHANGED jar
    /\ UNCHANGED << call, ret, entry, debug, request, max_posts, feed, browser, context,
                    page, cookie_file, cookie_save, auth_content, is_authenticated,
                    variant, landing,
                    target, posts, scraped_post_ids, no_new_posts_count,
                    emptyPasses, outcome >>

\* extract_posts lines 324-401: the whole-page record when the body text
\* exceeds 200 characters, then a record for each of the first max_posts
\* matched elements that yields one.
ActorExtracted(basic, elements, limit) ==
    (IF basic THEN <<BasicPost>> ELSE <<>>)
        \o ExtractPosts(Truncate(elements, limit))

\* scrape_posts lines 570-580: extract_posts absorbs its errors and returns
\* the records it has.  Line 265 writes the def of extract_posts without the
\* indentation of the class body; it is modelled as the method that line 578
\* calls.
ActorExtractPosts ==
    /\ pc = "a_extract"
    /\ \E basic \in BOOLEAN, elements \in Snapshots :
          /\ posts' = ActorExtracted(basic, elements, max_posts)
          /\ pending' = Returned(posts')
    /\ navOutcome' = "none"
    /\ pc' = "a_finally"
    /\ UNCHANGED << call, ret, entry, debug, request, max_posts, feed, browser, context,
                    page, cookie_file, cookie_save, jar, auth_content, is_authenticated,
                    attempt, variant, target, landing, scraped_post_ids,
                    no_new_posts_count, emptyPasses, outcome >>

\* scrape_posts lines 585-591: the finally block closes the browser context
\* (and with it its pages); an error of the close is logged.  The browser
\* launched in setup_browser is a local of that method and is not closed.
ActorFinally ==
    /\ pc = "a_finally"
    /\ \E closeOk \in BOOLEAN :
          /\ context' = IF context = "open" /\ closeOk THEN "closed" ELSE context
          /\ page' = IF page = "open" /\ context' = "closed" THEN "closed" ELSE page
          /\ jar' = IF context' = "open" THEN jar ELSE {}
    /\ pc' = "a_main"
    /\ UNCHANGED << call, ret, entry, debug, request, max_posts, feed, browser,
                    cookie_file, cookie_save, auth_content, is_authenticated, attempt,
                    variant, target, navOutcome, landing, posts, scraped_post_ids,
                    no_new_posts_count, emptyPasses, pending, outcome >>

\* main lines 613-632: push the records and set the status message; an error
\* of scrape_posts or of a push becomes the status message.
ActorFinish ==
    /\ pc = "a_main"
    /\ IF pending.kind = "returned"
       THEN \E pushed \in 0..Len(pending.posts) :
               outcome' = IF pushed = Len(pending.posts)
                          THEN Returned(pending.posts)
                          ELSE [kind |-> "raised", reason |-> "push_data",
                                posts |-> SubSeq(pending.posts, 1, pushed)]
       ELSE outcome' = pending
    /\ pc' = "done"
    /\ UNCHANGED << call, ret, entry, debug, request, max_posts, feed, browser, context,
                    page, cookie_file, cookie_save, jar, auth_content, is_authenticated,
                    attempt, variant, target, navOutcome, landing, posts,
                    scraped_post_ids, no_new_posts_count, emptyPasses, pending >>

Next ==
    \/ SearchPosts
    \/ VerifyAuthentication
    \/ BuildUrl
    \/ NavigateAttempt
    \/ PrepareContent
    \/ ScrapePass
    \/ ScrapeReturn
    \/ Cleanup
    \/ CallerContinues
    \/ ActorMain
    \/ ActorSetupBrowser
    \/ ActorSetCookies
    \/ ActorNavigateAttempt
    \/ ActorExtractPosts
    \/ ActorFinally
    \/ ActorFinish

Spec == Init /\ [][Next]_vars

\* _scrape_posts awaits only calls that return or raise (timeouts bound every
\* wait), so an iteration that can run does run, and so does the return.
FairSpec == Spec /\ WF_vars(ScrapePass) /\ WF_vars(ScrapeReturn)

\* ------------------------------------------------------------- verify_authentication alone
\* The home page shows any of the page contents; lines 199-215 judge it.
AuthInit ==
    /\ entry = "cli"
    /\ pc = "verify_authentication"
    /\ debug = FALSE
    /\ request = "query"
    /\ max_posts = 1
    /\ feed = [scripted |-> FALSE, pos |-> 0]
    /\ browser = "open" /\ context = "open" /\ page = "open"
    /\ cookie_file = [exists |-> TRUE, cookies |-> {"xs"}]
    /\ cookie_save = "none"
    /\ jar = {"xs"}
    /\ auth_content \in PageContents
    /\ is_authenticated = "unset"
    /\ attempt = 0 /\ variant = 0
    /\ target = "none"
    /\ navOutcome = "none"
    /\ landing = NoLoad
    /\ call = NoCall /\ ret = NoReturn
    /\ posts = <<>>
    /\ scraped_post_ids = {}
    /\ no_new_posts_count = 0
    /\ emptyPasses = 0
    /\ pending = NoOutcome
    /\ outcome = NoOutcome

\* Lines 205-215: the verdict on the content that was read.
JudgeContent ==
    /\ pc = "verify_authentication"
    /\ is_authenticated = "unset"
    /\ is_authenticated' = IF IsAuthenticated(auth_content) THEN "yes" ELSE "no"
    /\ jar' = jar \cup SiteCookies
    /\ pc' = "build_url"
    /\ UNCHANGED << call, ret, entry, debug, request, max_posts, feed, auth_content,
                    browser, context, page, cookie_file, cookie_save, attempt, variant,
                    target, navOutcome, landing, posts, scraped_post_ids,
                    no_new_posts_count, emptyPasses, pending, outcome >>

AuthNext == JudgeContent

AuthSpec == AuthInit /\ [][AuthNext]_vars

\* ------------------------------------------------------------- helpers called alone
\* The variables of a run, which a helper called on its own leaves alone.
runVars == << entry, pc, debug, request, max_posts, feed, browser, context, page,
              cookie_file, cookie_save, jar, auth_content, is_authenticated,
              attempt, variant, target, navOutcome, landing, posts,
              scraped_post_ids, no_new_posts_count, emptyPasses, pending,
              outcome >>

\* A scraper object on an open page, between the steps of a run.
NoRun ==
    /\ entry = "cli"
    /\ pc = "helper"
    /\ debug = FALSE
    /\ request = "query"
    /\ max_posts = 1
    /\ feed = [scripted |-> FALSE, pos |-> 0]
    /\ browser = "open" /\ context = "open" /\ page = "open"
    /\ cookie_file = [exists |-> FALSE, cookies |-> {}]
    /\ cookie_save = "none"
    /\ jar = {}
    /\ auth_content = <<>>
    /\ is_authenticated = "unset"
    /\ attempt = 0 /\ variant = 0
    /\ target = "none"
    /\ navOutcome = "none"
    /\ landing = NoLoad
    /\ posts = <<>>
    /\ scraped_post_ids = {}
    /\ no_new_posts_count = 0
    /\ emptyPasses = 0
    /\ pending = NoOutcome
    /\ outcome = NoOutcome

\* The call returns value / the call raises.
Gives(value) == [done |-> TRUE, raised |-> FALSE, value |-> value]
Raises == [done |-> TRUE, raised |-> TRUE, value |-> <<>>]

\* ------------------------------------------------------------- _extract_posts_from_page alone
\* post_selectors, lines 533-543, by the word that tells them apart.
post_selectors ==
    << "FeedUnit", "fbfeed_story", "article", "data-ft", "userContentWrapper",
       "story", "post", "posts", "story.php" >>

\* What locator(selector).all() does for one selector on the page: it raises,
\* or it gives the matched elements (each a postId, or 0 for an element that
\* yields no record).  A selector that matches is given one element here;
\* what several elements of one selector yield is ExtractPosts, as in the
\* passes of a run.
NoMatch == [raises |-> FALSE, elements |-> <<>>]

SelectorHits ==
    { [raises |-> TRUE, elements |-> <<>>] }
    \cup { [raises |-> FALSE, elements |-> <<e>>] : e \in Elements }

\* The pages of one pass: wait_for_timeout raises or not, and at most MaxHits
\* of the selectors raise or match something.
Doms ==
    { [wait_raises |-> w,
       selectors |-> [k \in 1..Len(post_selectors) |->
                         IF k \in DOMAIN hit THEN hit[k] ELSE NoMatch]] :
        w \in BOOLEAN,
        hit \in UNION { [where -> SelectorHits] :
                          where \in { h \in SUBSET (1..Len(post_selectors)) :
                                        Cardinality(h) <= MaxHits } } }

\* The selector loop without the try of lines 550-560: an error of a selector
\* leaves the loop, and the elements found so far (none) go on.
RECURSIVE SelectNoInnerTry(_, _)
SelectNoInnerTry(selectors, k) ==
    IF k > Len(selectors)
    THEN [selector_used |-> 0, post_elements |-> <<>>, consulted |-> k - 1]
    ELSE IF selectors[k].raises
    THEN [selector_used |-> 0, post_elements |-> <<>>, consulted |-> k]
    ELSE IF selectors[k].elements # <<>>
    THEN [selector_used |-> k, post_elements |-> selectors[k].elements,
          consulted |-> k]
    ELSE SelectNoInnerTry(selectors, k + 1)

\* The selector loop without the break of line 556: the elements of every
\* matching selector are put together.
RECURSIVE SelectMerging(_, _)
SelectMerging(selectors, k) ==
    IF k > Len(selectors)
    THEN [selector_used |-> 0, post_elements |-> <<>>, consulted |-> k - 1]
    ELSE LET rest == SelectMerging(selectors, k + 1)
         IN  IF selectors[k].raises \/ selectors[k].elements = <<>> THEN rest
             ELSE [selector_used |-> k,
                   post_elements |-> selectors[k].elements \o rest.post_elements,
                   consulted |-> rest.consulted]

\* The selector loop going on to the next selector when the elements of a
\* matching one yield no record.
RECURSIVE SelectFirstYielding(_, _)
SelectFirstYielding(selectors, k) ==
    IF k > Len(selectors)
    THEN [selector_used |-> 0, post_elements |-> <<>>, consulted |-> k - 1]
    ELSE IF selectors[k].raises
    THEN SelectFirstYielding(selectors, k + 1)
    ELSE IF ExtractPosts(selectors[k].elements) # <<>>
    THEN [selector_used |-> k, post_elements |-> selectors[k].elements,
          consulted |-> k]
    ELSE SelectFirstYielding(selectors, k + 1)

\* The selector loop, lines 549-560, from selector k on: an error of a
\* selector is caught and the loop continues; the first selector that matches
\* at least one element ends the loop.  consulted is the number of selectors
\* the loop has asked the page for.
RECURSIVE Select(_, _)
Select(selectors, k) ==
    IF k > Len(selectors)
    THEN [selector_used |-> 0, post_elements |-> <<>>, consulted |-> k - 1]
    ELSE IF selectors[k].raises
    THEN Select(selectors, k + 1)
    ELSE IF selectors[k].elements # <<>>
    THEN [selector_used |-> k, post_elements |-> selectors[k].elements,
          consulted |-> k]
    ELSE Select(selectors, k + 1)

\* _extract_posts_from_page, lines 526-583: an error of wait_for_timeout is
\* caught by the outer try with posts still empty; the function returns the
\* records of the chosen elements and the selector is kept for the log.
ExtractPostsFromPage(dom) ==
    IF dom.wait_raises
    THEN Gives([selector_used |-> 0, consulted |-> 0, posts |-> <<>>])
    ELSE LET found == Select(dom.selectors, 1)
         IN  Gives([selector_used |-> found.selector_used,
                    consulted |-> found.consulted,
                    posts |-> ExtractPosts(found.post_elements)])

ExtractInit ==
    /\ NoRun
    /\ call \in { [fn |-> "_extract_posts_from_page", arg |-> dom] : dom \in Doms }
    /\ ret = NoReturn

ExtractPass ==
    /\ call.fn = "_extract_posts_from_page"
    /\ ~ret.done
    /\ ret' = ExtractPostsFromPage(call.arg)
    /\ UNCHANGED << call, runVars >>

ExtractNext == ExtractPass

ExtractSpec == ExtractInit /\ [][ExtractNext]_vars

\* ------------------------------------------------------------- the count parsers alone
Digits == {"0", "1", "2", "3", "4", "5", "6", "7", "8", "9"}

Letters ==
    { "a", "b", "c", "d", "e", "f", "g", "h", "i", "j", "k", "l", "m", "n", "o",
      "p", "q", "r", "s", "t", "u", "v", "w", "x", "y", "z" }

UpperStr(s) == [i \in 1..Len(s) |-> Upper(s[i])]

\* s without the characters of chars: re.sub(r'[...]', '', s), str.replace
Without(s, chars) == SelectSeq(s, LAMBDA ch : ch \notin chars)

\* ch in s
Has(s, ch) == \E i \in 1..Len(s) : s[i] = ch

\* The texts made of at most n of the tokens.
RECURSIVE TextsUpTo(_, _)
TextsUpTo(tokens, n) ==
    IF n = 0 THEN {<<>>}
    ELSE LET shorter == TextsUpTo(tokens, n - 1)
         IN  shorter \cup { text \o token : text \in shorter, token \in tokens }

\* What the count texts are made of: mantissas, separators, a sign, suffix
\* letters in both cases, and a word that float() reads as infinity.
CountTokens ==
    { <<"1", ".", "2">>, <<"2", ".", "5">>, <<"5", "0", "0">>, <<"3">>, <<"5">>,
      <<".">>, <<",">>, <<" ">>, <<"-">>,
      <<"K">>, <<"k">>, <<"M">>, <<"m">>, <<"B">>,
      <<"i", "n", "f">> }

CountTexts == TextsUpTo(CountTokens, MaxCountTokens)

\* An integer as Python prints it: its decimal digits without leading zeros,
\* after a "-" when it is negative.  (2500000000 has no place in a 32-bit
\* integer, so counts are kept as numerals.)
RECURSIVE StripZeros(_)
StripZeros(digits) ==
    IF Len(digits) > 1 /\ Head(digits) = "0" THEN StripZeros(Tail(digits))
    ELSE IF digits = <<>> THEN <<"0">> ELSE digits

Zeros(n) == [i \in 1..n |-> "0"]

Unsigned(s) == IF s # <<>> /\ Head(s) = "-" THEN Tail(s) ELSE s

\* float(s) for a text of these characters: a number when s is an optional
\* "-" and digits with at most one "." (at least one digit), infinity when it
\* is an optional "-" and "INF", else ValueError.
FloatKind(s) ==
    LET body == Unsigned(s)
    IN  IF body = <<"I", "N", "F">> THEN "inf"
        ELSE IF /\ \A i \in 1..Len(body) : body[i] \in Digits \cup {"."}
                /\ \E i \in 1..Len(body) : body[i] \in Digits
                /\ Cardinality({ i \in 1..Len(body) : body[i] = "." }) <= 1
        THEN "number"
        ELSE "ValueError"

\* int(float(s) * 10^n) for a number s: the decimal point moves n places to
\* the right and the digits after it are dropped; int(-0.0) is 0.  The
\* product is computed in binary floating point, which gives the same integer
\* for every text of CountTexts.
Scaled(s, n) ==
    LET body == Unsigned(s)
        dot == IF Has(body, ".")
               THEN CHOOSE i \in 1..Len(body) : body[i] = "."
               ELSE Len(body) + 1
        whole == SubSeq(body, 1, dot - 1)
        fraction == SubSeq(body, dot + 1, Len(body)) \o Zeros(n)
        digits == StripZeros(whole \o SubSeq(fraction, 1, n))
    IN  IF s # <<>> /\ Head(s) = "-" /\ digits # <<"0">>
        THEN <<"-">> \o digits
        ELSE digits

\* int(float(s) * 10^n): the numeral, or the error that float() or int()
\* raises (int of infinity is an OverflowError).
IntOfProduct(s, n) ==
    CASE FloatKind(s) = "number" -> [error |-> "none", value |-> Scaled(s, n)]
      [] FloatKind(s) = "inf" -> [error |-> "OverflowError", value |-> <<>>]
      [] OTHER -> [error |-> "ValueError", value |-> <<>>]

\* re.search(r'(\d+(?:\.\d+)?)', s).group(1): the leftmost run of digits and,
\* when a "." and a digit follow it, that "." and the digits after it; <<>>
\* when s has no digit.
NumberMatch(s) ==
    IF \A i \in 1..Len(s) : s[i] \notin Digits THEN <<>>
    ELSE LET first == CHOOSE i \in 1..Len(s) :
                          s[i] \in Digits /\ \A j \in 1..(i - 1) : s[j] \notin Digits
             RunEnd(from) == CHOOSE e \in from..Len(s) :
                          /\ \A j \in from..e : s[j] \in Digits
                          /\ (e = Len(s) \/ s[e + 1] \notin Digits)
             last == RunEnd(first)
         IN  IF last + 2 <= Len(s) /\ s[last + 1] = "." /\ s[last + 2] \in Digits
             THEN SubSeq(s, first, RunEnd(last + 2))
             ELSE SubSeq(s, first, last)

\* The multiplier of a suffix letter, as a power of ten.
SuffixPower(letter) ==
    CASE letter = "K" -> 3 [] letter = "M" -> 6 [] letter = "B" -> 9

\* Lines 1062-1070 of facebook_scraper.py and 523-528 of main.py: the first
\* of K, M, B that occurs in the text decides the branch.
SuffixOf(clean) ==
    IF Has(clean, "K") THEN "K"
    ELSE IF Has(clean, "M") THEN "M"
    ELSE IF Has(clean, "B") THEN "B"
    ELSE "none"

\* _parse_count, facebook_scraper.py lines 1054-1079: separators and white
\* space are removed and the text is upper-cased; with a suffix letter, the
\* rest is read by float() and multiplied; without one, the first number in
\* the text is taken.  ValueError and TypeError give 0, any other error
\* leaves the function.
ParseCount(count_str) ==
    IF count_str = <<>> THEN Gives(<<"0">>)
    ELSE LET clean_str == UpperStr(Without(count_str, {",", " "}))
             letter == SuffixOf(clean_str)
         IN  IF letter # "none"
             THEN LET product == IntOfProduct(Without(clean_str, {letter}),
                                              SuffixPower(letter))
                  IN  CASE product.error = "none" -> Gives(product.value)
                        [] product.error = "ValueError" -> Gives(<<"0">>)
                        [] OTHER -> Raises
             ELSE IF NumberMatch(clean_str) # <<>>
             THEN Gives(Scaled(NumberMatch(clean_str), 0))
             ELSE Gives(<<"0">>)

\* parse_count, main.py lines 514-532: only digits, "K", "M", "B" and "." are
\* kept (no upper-casing); with a suffix letter as above, without one the
\* text is read by int(); every error gives 0.
ActorParseCount(count_text) ==
    IF count_text = <<>> THEN Gives(<<"0">>)
    ELSE LET clean_text ==
                 SelectSeq(count_text,
                           LAMBDA ch : ch \in Digits \cup {"K", "M", "B", "."})
             letter == SuffixOf(clean_text)
         IN  IF letter # "none"
             THEN LET product == IntOfProduct(Without(clean_text, {letter}),
                                              SuffixPower(letter))
                  IN  IF product.error = "none" THEN Gives(product.value)
                      ELSE Gives(<<"0">>)
             ELSE IF clean_text # <<>> /\ ~Has(clean_text, ".")
             THEN Gives(StripZeros(clean_text))
             ELSE Gives(<<"0">>)

CountInit ==
    /\ NoRun
    /\ call \in { [fn |-> fn, arg |-> text] :
                    fn \in {"_parse_count", "parse_count"}, text \in CountTexts }
    /\ ret = NoReturn

CallParseCount ==
    /\ call.fn = "_parse_count"
    /\ ~ret.done
    /\ ret' = ParseCount(call.arg)
    /\ UNCHANGED << call, runVars >>

CallActorParseCount ==
    /\ call.fn = "parse_count"
    /\ ~ret.done
    /\ ret' = ActorParseCount(call.arg)
    /\ UNCHANGED << call, runVars >>

CountNext == CallParseCount \/ CallActorParseCount

CountSpec == CountInit /\ [][CountNext]_vars

\* ------------------------------------------------------------- _parse_facebook_time alone
\* What the time texts are made of.
TimeTokens ==
    { <<"2", " ">>, <<"3", "0", " ">>,
      <<"m", "i", "n", "u", "t", "e">>, <<"h", "o", "u", "r", "s">>, <<"d", "a", "y", "s">>, <<"w", "e", "e", "k", "s">>, <<" ", "a", "g", "o">>,
      <<"j", "u", "s", "t", " ", "n", "o", "w">>, <<"f", "e", "w", " ", "s", "e", "c", "o", "n", "d", "s">>, <<"m", "o", "m", "e", "n", "t", "s", " ", "a", "g", "o">>,
      <<"y", "e", "s", "t", "e", "r", "d", "a", "y">>, <<"Y", "e", "s", "t", "e", "r", "d", "a", "y">>, <<"t", "o", "d", "a", "y">>, <<"M", "o", "n", "d", "a", "y">>,
      <<"2", "0", "2", "4", "-", "0", "1", "-", "1", "5">>, <<"0", "1", "/", "1", "5", "/", "2", "0", "2", "4">>, <<"2", "/", "3", "0", "/", "2", "0", "2", "4">>,
      <<"J", "a", "n", "u", "a", "r", "y", " ", "1", "5", ",", " ", "2", "0", "2", "4", " ", "a", "t", " ", "5", ":", "0", "0", " ", "P", "M">>,
      <<"M", "a", "r", "c", "h", " ", "5", " ", "a", "t", " ", "1", "2", ":", "0", "5", " ", "a", "m">> }

TimeTexts == TextsUpTo(TimeTokens, MaxTimeTokens)

DigitValue(ch) ==
    CASE ch = "0" -> 0 [] ch = "1" -> 1 [] ch = "2" -> 2 [] ch = "3" -> 3
      [] ch = "4" -> 4 [] ch = "5" -> 5 [] ch = "6" -> 6 [] ch = "7" -> 7
      [] ch = "8" -> 8 [] ch = "9" -> 9

\* int(digits)
RECURSIVE IntOf(_)
IntOf(digits) ==
    IF digits = <<>> THEN 0
    ELSE IntOf(SubSeq(digits, 1, Len(digits) - 1)) * 10
            + DigitValue(digits[Len(digits)])

\* s[from..] starts with literal
StartsWith(s, from, literal) ==
    /\ from + Len(literal) - 1 <= Len(s)
    /\ SubSeq(s, from, from + Len(literal) - 1) = literal

\* The last position of the run of characters of chars that starts at from
\* (from - 1 when there is none).
RunEnd(s, from, chars) ==
    CHOOSE e \in (from - 1)..Len(s) :
        /\ \A j \in from..e : s[j] \in chars
        /\ (e = Len(s) \/ s[e + 1] \notin chars)

\* re.search(r'(\d+)\s*unit', s): int(group(1)) of the leftmost match, and 1
\* (the default of lines 1010, 1014, 1021, 1025) when there is no match.
CountBefore(s, unit) ==
    LET Starts == { i \in 1..Len(s) :
                      /\ s[i] \in Digits
                      /\ StartsWith(s, RunEnd(s, RunEnd(s, i, Digits) + 1, {" "}) + 1,
                                    unit) }
    IN  IF Starts = {} THEN 1
        ELSE LET first == CHOOSE i \in Starts : \A j \in Starts : i <= j
             IN  IntOf(SubSeq(s, first, RunEnd(s, first, Digits)))

\* The values of the parser: None, now minus a number of minutes, or a date
\* and time of day read from the text.
NoTime == [kind |-> "None", ago |-> 0, date |-> <<>>]
Ago(minutes) == [kind |-> "ago", ago |-> minutes, date |-> <<>>]
Date(fields) == [kind |-> "date", ago |-> 0, date |-> fields]

\* datetime.now(), line 1003, held at 2024-06-15 12:00, in minutes since the
\* first minute of year 1 (datetime.min).
now == 1064234160

\* now - timedelta(...) and the dict of lines 1044-1047: a result before
\* year 1 raises OverflowError, which line 1049 catches to return None.
Before(minutes) == IF minutes >= now THEN NoTime ELSE Ago(minutes)

month_names ==
    << <<"j", "a", "n", "u", "a", "r", "y">>, <<"f", "e", "b", "r", "u", "a", "r", "y">>, <<"m", "a", "r", "c", "h">>, <<"a", "p", "r", "i", "l">>, <<"m", "a", "y">>, <<"j", "u", "n", "e">>,
       <<"j", "u", "l", "y">>, <<"a", "u", "g", "u", "s", "t">>, <<"s", "e", "p", "t", "e", "m", "b", "e", "r">>, <<"o", "c", "t", "o", "b", "e", "r">>, <<"n", "o", "v", "e", "m", "b", "e", "r">>,
       <<"d", "e", "c", "e", "m", "b", "e", "r">> >>

\* The formats of lines 1028-1033, item by item: a directive, or a literal
\* character.
date_patterns ==
    << << "%B", " ", "%d", ",", " ", "%Y", " ", "a", "t", " ", "%I", ":", "%M",
          " ", "%p" >>,
       << "%B", " ", "%d", " ", "a", "t", " ", "%I", ":", "%M", " ", "%p" >>,
       << "%m", "/", "%d", "/", "%Y" >>,
       << "%Y", "-", "%m", "-", "%d" >> >>

\* The ways one item of a format can match at the start of text, in the order
\* in which the regular expression of strptime tries them: how many
\* characters it takes and the value it reads.  Matching ignores case; a
\* space of the format matches one or more spaces.
Alternatives(text, item) ==
    LET Digit(i) == i <= Len(text) /\ text[i] \in Digits
        Two(lo, hi) ==
            IF Digit(1) /\ Digit(2) /\ text[1] \in lo /\ text[2] \in hi
            THEN << [len |-> 2, val |-> IntOf(SubSeq(text, 1, 2))] >> ELSE <<>>
        One(set) ==
            IF Digit(1) /\ text[1] \in set
            THEN << [len |-> 1, val |-> DigitValue(text[1])] >> ELSE <<>>
        Word(w, v) ==
            IF StartsWith(LowerStr(text), 1, w)
            THEN << [len |-> Len(w), val |-> v] >> ELSE <<>>
        spaces == RunEnd(text, 1, {" "})
    IN  CASE item = "%Y" ->
               IF Digit(1) /\ Digit(2) /\ Digit(3) /\ Digit(4)
               THEN << [len |-> 4, val |-> IntOf(SubSeq(text, 1, 4))] >> ELSE <<>>
          [] item \in {"%m", "%I"} ->
               Two({"1"}, {"0", "1", "2"}) \o Two({"0"}, Digits \ {"0"})
                   \o One(Digits \ {"0"})
          [] item = "%d" ->
               Two({"3"}, {"0", "1"}) \o Two({"1", "2"}, Digits)
                   \o Two({"0"}, Digits \ {"0"}) \o One(Digits \ {"0"})
                   \o (IF Len(text) >= 2 /\ text[1] = " " /\ text[2] \in Digits \ {"0"}
                       THEN << [len |-> 2, val |-> DigitValue(text[2])] >> ELSE <<>>)
          [] item = "%M" ->
               Two({"0", "1", "2", "3", "4", "5"}, Digits) \o One(Digits)
          [] item = "%p" -> Word(<<"a", "m">>, 0) \o Word(<<"p", "m">>, 12)
          [] item = "%B" ->
               LET months == { m \in 1..12 : StartsWith(LowerStr(text), 1, month_names[m]) }
               IN  IF months = {} THEN <<>>
                   ELSE LET m == CHOOSE m \in months : TRUE
                        IN  << [len |-> Len(month_names[m]), val |-> m] >>
          [] item = " " ->
               [k \in 1..spaces |-> [len |-> spaces + 1 - k, val |-> 0]]
          [] OTHER ->
               IF text # <<>> /\ Lower(text[1]) = Lower(item)
               THEN << [len |-> 1, val |-> 0] >> ELSE <<>>

\* re.match of the format's regular expression: the first way, in the order
\* of the alternatives, in which the whole format matches a prefix of text;
\* <<>> when there is none.  The match gives the text left over and the
\* values read, keyed by directive.
RECURSIVE Match(_, _)
RECURSIVE MatchAmong(_, _, _)
Match(text, format) ==
    IF format = <<>> THEN << [rest |-> text, fields |-> <<>>] >>
    ELSE MatchAmong(text, format, Alternatives(text, Head(format)))

MatchAmong(text, format, alternatives) ==
    IF alternatives = <<>> THEN <<>>
    ELSE LET taken == Head(alternatives)
             after == Match(SubSeq(text, taken.len + 1, Len(text)), Tail(format))
         IN  IF after # <<>>
             THEN << [rest |-> after[1].rest,
                      fields |-> << [item |-> Head(format), val |-> taken.val] >>
                                    \o after[1].fields] >>
             ELSE MatchAmong(text, format, Tail(alternatives))

\* The value read for a directive, or the default when the format lacks it.
Field(fields, item, default) ==
    IF \E i \in 1..Len(fields) : fields[i].item = item
    THEN fields[CHOOSE i \in 1..Len(fields) : fields[i].item = item].val
    ELSE default

DaysIn(month, year) ==
    IF month = 2
    THEN IF year % 4 = 0 /\ (year % 100 # 0 \/ year % 400 = 0) THEN 29 ELSE 28
    ELSE IF month \in {4, 6, 9, 11} THEN 30 ELSE 31

\* datetime.strptime(text, format): ValueError (<<>>) when the format does not
\* match, when text goes on after the match, or when the day is not a day of
\* the month; else <<year, month, day, hour, minute>>, the year being 1900
\* when the format has none.
Strptime(text, format) ==
    LET found == Match(text, format)
    IN  IF found = <<>> \/ found[1].rest # <<>> THEN <<>>
        ELSE LET fields == found[1].fields
                 year == Field(fields, "%Y", 1900)
                 month == IF Field(fields, "%B", 0) # 0 THEN Field(fields, "%B", 0)
                          ELSE Field(fields, "%m", 1)
                 day == Field(fields, "%d", 1)
                 hour == (Field(fields, "%I", 0) % 12) + Field(fields, "%p", 0)
             IN  IF day > DaysIn(month, year) THEN <<>>
                 ELSE << year, month, day, hour, Field(fields, "%M", 0) >>

\* Lines 1035-1042: the first format of date_patterns, from the k-th on, that
\* reads the text; None when none does.
RECURSIVE FirstDate(_, _)
FirstDate(time_str, k) ==
    IF k > Len(date_patterns) THEN NoTime
    ELSE IF Strptime(time_str, date_patterns[k]) # <<>>
    THEN Date(Strptime(time_str, date_patterns[k]))
    ELSE FirstDate(time_str, k + 1)

\* The test of line 1016: "day" or "yesterday" occurs somewhere in the text.
MentionsDays(lower) ==
    Contains(lower, <<"d", "a", "y">>) \/ Contains(lower, <<"y", "e", "s", "t", "e", "r", "d", "a", "y">>)

\* _parse_facebook_time, lines 1000-1052, as minutes before now for the
\* relative phrases.
ParseFacebookTime(time_str) ==
    LET lower == LowerStr(time_str)
    IN  IF \E phrase \in { <<"j", "u", "s", "t", " ", "n", "o", "w">>, <<"f", "e", "w", " ", "s", "e", "c", "o", "n", "d", "s">>, <<"m", "o", "m", "e", "n", "t", "s", " ", "a", "g", "o">> } :
               Contains(lower, phrase)
        THEN Ago(0)
        ELSE IF Contains(lower, <<"m", "i", "n", "u", "t", "e">>)
        THEN Before(CountBefore(lower, <<"m", "i", "n", "u", "t", "e">>))
        ELSE IF Contains(lower, <<"h", "o", "u", "r">>)
        THEN Before(60 * CountBefore(lower, <<"h", "o", "u", "r">>))
        ELSE IF MentionsDays(lower)
        THEN IF Contains(lower, <<"y", "e", "s", "t", "e", "r", "d", "a", "y">>)
             THEN Before(1440)
             ELSE Before(1440 * CountBefore(lower, <<"d", "a", "y">>))
        ELSE IF Contains(lower, <<"w", "e", "e", "k">>)
        THEN Before(10080 * CountBefore(lower, <<"w", "e", "e", "k">>))
        ELSE FirstDate(time_str, 1)

TimeInit ==
    /\ NoRun
    /\ call \in { [fn |-> "_parse_facebook_time", arg |-> text] : text \in TimeTexts }
    /\ ret = NoReturn

CallParseFacebookTime ==
    /\ call.fn = "_parse_facebook_time"
    /\ ~ret.done
    /\ ret' = Gives(ParseFacebookTime(call.arg))
    /\ UNCHANGED << call, runVars >>

TimeNext == CallParseFacebookTime

TimeSpec == TimeInit /\ [][TimeNext]_vars

\* ------------------------------------------------------------- the URL helpers alone
AlphaNum ==
    Digits \cup Letters \cup { Upper(ch) : ch \in Letters }

\* The hrefs of post links: a path, relative or absolute.
UrlPaths ==
    { <<"/", "p", "o", "s", "t", "s", "/", "1", "2", "3">>,
      <<"h", "t", "t", "p", "s", ":", "/", "/", "m", ".", "f", "a", "c", "e", "b", "o", "o", "k", ".", "c", "o", "m", "/", "u", "/", "p", "o", "s", "t", "s", "/", "4", "5">>,
      <<"/", "u", "/", "p", "o", "s", "t", "s", "/", "p", "f", "b", "i", "d", "0", "A", "b">>,
      <<"/", "s", "t", "o", "r", "y", ".", "p", "h", "p">>,
      <<"/", "u", "/", "p", "o", "s", "t", "s", "/", "s", "l", "u", "g">> }

\* The parameters of a query: tracking parameters and others.
TrackingParams == { <<"_", "_", "t", "n", "_", "_", "=", "a">>, <<"_", "_", "t", "n", "_", "_", "=", "b">>, <<"_", "_", "c", "f", "t", "_", "_", "[", "0", "]", "=", "x">> }
OtherParams == { <<"i", "d", "=", "7">>, <<"s", "t", "o", "r", "y", "_", "f", "b", "i", "d", "=", "9">> }

\* path?param&param...
RECURSIVE Joined(_)
Joined(params) ==
    IF params = <<>> THEN <<>>
    ELSE <<"&">> \o Head(params) \o Joined(Tail(params))

Url(path, params) ==
    IF params = <<>> THEN path
    ELSE path \o <<"?">> \o Tail(Joined(params))

\* Pairs of hrefs of one post that differ only in their tracking parameters:
\* the same path and the same other parameters in the same order.
VariantPairs ==
    { << Url(path, pair[1]), Url(path, pair[2]) >> :
        path \in UrlPaths,
        pair \in { pq \in SeqsUpTo(TrackingParams \cup OtherParams, MaxParams)
                          \X SeqsUpTo(TrackingParams \cup OtherParams, MaxParams) :
                     SelectSeq(pq[1], LAMBDA x : x \in OtherParams)
                       = SelectSeq(pq[2], LAMBDA x : x \in OtherParams) } }

\* The first position from `from` on that holds ch (Len + 1 when none).
Find(s, from, ch) ==
    IF \E i \in from..Len(s) : s[i] = ch
    THEN CHOOSE i \in from..Len(s) : s[i] = ch /\ \A j \in from..(i - 1) : s[j] # ch
    ELSE Len(s) + 1

\* re.sub(r'[?&]__tn__=[^&]*', '', url) from position i on: a "?" or "&"
\* followed by __tn__= is dropped with everything up to the next "&".
RECURSIVE WithoutTn(_, _)
WithoutTn(url, i) ==
    IF i > Len(url) THEN <<>>
    ELSE IF url[i] \in {"?", "&"} /\ StartsWith(url, i + 1, <<"_", "_", "t", "n", "_", "_", "=">>)
    THEN WithoutTn(url, Find(url, i + 8, "&"))
    ELSE <<url[i]>> \o WithoutTn(url, i + 1)

\* re.sub(r'[?&]__cft__\[[^\]]*\]=[^&]*', '', url) from position i on.
RECURSIVE WithoutCft(_, _)
WithoutCft(url, i) ==
    IF i > Len(url) THEN <<>>
    ELSE IF /\ url[i] \in {"?", "&"}
            /\ StartsWith(url, i + 1, <<"_", "_", "c", "f", "t", "_", "_", "[">>)
            /\ StartsWith(url, Find(url, i + 9, "]"), <<"]", "=">>)
    THEN WithoutCft(url, Find(url, Find(url, i + 9, "]") + 2, "&"))
    ELSE <<url[i]>> \o WithoutCft(url, i + 1)

\* _normalize_facebook_url, lines 987-998.
NormalizeFacebookUrl(url) ==
    IF url = <<>> THEN url
    ELSE LET absolute == IF Head(url) = "/"
                         THEN <<"h", "t", "t", "p", "s", ":", "/", "/", "w", "w", "w", ".", "f", "a", "c", "e", "b", "o", "o", "k", ".", "c", "o", "m">> \o url
                         ELSE url
         IN  WithoutCft(WithoutTn(absolute, 1), 1)

\* re.search(literal + '([chars]+)', url): <<>> when there is no match, else
\* << [group0, group1] >> of the leftmost one.
Search(url, literal, chars) ==
    LET At(i) == /\ StartsWith(url, i, literal)
                 /\ i + Len(literal) <= Len(url)
                 /\ url[i + Len(literal)] \in chars
    IN  IF \A i \in 1..Len(url) : ~At(i) THEN <<>>
        ELSE LET i == CHOOSE i \in 1..Len(url) : At(i) /\ \A j \in 1..(i - 1) : ~At(j)
                 last == RunEnd(url, i + Len(literal), chars)
             IN  << [group0 |-> SubSeq(url, i, last),
                     group1 |-> SubSeq(url, i + Len(literal), last)] >>

\* re.search(r'/story\.php.*?story_fbid=(\d+)', url): the first story_fbid=
\* with digits after the leftmost /story.php.
SearchStory(url) ==
    LET At(i) == StartsWith(url, i, <<"/", "s", "t", "o", "r", "y", ".", "p", "h", "p">>)
                 /\ Search(SubSeq(url, i + 10, Len(url)), <<"s", "t", "o", "r", "y", "_", "f", "b", "i", "d", "=">>, Digits) # <<>>
    IN  IF \A i \in 1..Len(url) : ~At(i) THEN <<>>
        ELSE LET i == CHOOSE i \in 1..Len(url) : At(i) /\ \A j \in 1..(i - 1) : ~At(j)
                 tail == Search(SubSeq(url, i + 10, Len(url)), <<"s", "t", "o", "r", "y", "_", "f", "b", "i", "d", "=">>, Digits)
             IN  << [group0 |-> SubSeq(url, i, Len(url)), group1 |-> tail[1].group1] >>

\* The patterns of lines 949-955 on url, in their order.
PostPatterns(url) ==
    << Search(url, <<"/", "p", "o", "s", "t", "s", "/">>, Digits),
       Search(url, <<"/", "p", "e", "r", "m", "a", "l", "i", "n", "k", "/">>, Digits),
       Search(url, <<"s", "t", "o", "r", "y", "_", "f", "b", "i", "d", "=">>, Digits),
       Search(url, <<"p", "f", "b", "i", "d">>, AlphaNum),
       SearchStory(url) >>

\* _extract_id_from_url(url, 'post'), lines 944-962: group 1 of the first
\* pattern that matches when it is all digits, else the whole match; <<>>
\* stands for "no pattern matches", where line 962 takes digits of hash(url).
RECURSIVE FirstPattern(_, _)
FirstPattern(found, k) ==
    IF k > Len(found) THEN <<>>
    ELSE IF found[k] # <<>>
    THEN IF \A i \in 1..Len(found[k][1].group1) : found[k][1].group1[i] \in Digits
         THEN found[k][1].group1
         ELSE found[k][1].group0
    ELSE FirstPattern(found, k + 1)

\* The digits taken from hash(url) at line 962, by the order in which
\* distinct texts are hashed.  Two distinct texts get distinct digits unless
\* their hashes end in the same ten digits.
HashId(k) == <<"#", k>>

\* The ids of two hrefs, each normalized (lines 595, 679) and then given to
\* _extract_id_from_url (line 603); collide says whether two distinct texts
\* hash to the same digits.
IdsOf(pair, collide) ==
    LET clean == << NormalizeFacebookUrl(pair[1]), NormalizeFacebookUrl(pair[2]) >>
        first == FirstPattern(PostPatterns(clean[1]), 1)
        second == FirstPattern(PostPatterns(clean[2]), 1)
    IN  [clean |-> clean,
         ids |-> << IF first # <<>> THEN first ELSE HashId("1"),
                    IF second # <<>> THEN second
                    ELSE IF first = <<>> /\ (clean[1] = clean[2] \/ collide)
                    THEN HashId("1")
                    ELSE HashId("2") >>]

UrlInit ==
    /\ NoRun
    /\ call \in { [fn |-> "post_id", arg |-> pair] : pair \in VariantPairs }
    /\ ret = NoReturn

CallIdsOf ==
    /\ call.fn = "post_id"
    /\ ~ret.done
    /\ \E collide \in BOOLEAN : ret' = Gives(IdsOf(call.arg, collide))
    /\ UNCHANGED << call, runVars >>

UrlNext == CallIdsOf

UrlSpec == UrlInit /\ [][UrlNext]_vars

\* ------------------------------------------------------------- the wait for content alone
\* selectors_to_wait of _wait_for_content, lines 431-438, and wait_strategies
\* of extract_posts (src/main.py, lines 281-288), by the words that tell them
\* apart.
selectors_to_wait ==
    << "main", "fbfeed_story", "article", "userContentWrapper", "FeedUnit",
       "data-ft" >>

wait_strategies == << "article, FeedUnit", "data-pagelet, main", "body" >>

\* What wait_for_selector does for one signal: the selector appears within
\* the timeout, or the timeout passes (TimeoutError), or the call fails for
\* another reason (the page is closed, the target crashed).
WaitOutcomes == {"found", "timeout", "error"}

\* The pages the wait can meet: an outcome for each signal, and whether the
\* pause after the signals (wait_for_timeout, line 451; page.evaluate, line
\* 309) raises.
WaitPages(signals) ==
    [waits : [1..Len(signals) -> WaitOutcomes], settle_raises : BOOLEAN]

\* The loop over the signals with an except clause for the timeout alone: any
\* other error of wait_for_selector leaves the function.
RECURSIVE WaitFromTimeoutOnly(_, _)
WaitFromTimeoutOnly(waits, k) ==
    IF k > Len(waits) THEN [raised |-> FALSE, found |-> 0, tried |-> k - 1]
    ELSE IF waits[k] = "found" THEN [raised |-> FALSE, found |-> k, tried |-> k]
    ELSE IF waits[k] = "error" THEN [raised |-> TRUE, found |-> 0, tried |-> k]
    ELSE WaitFromTimeoutOnly(waits, k + 1)

\* The loop over the signals from the k-th on, lines 440-447 (src/main.py
\* lines 291-299): wait for the signal; when it appears, break; when the
\* wait raises, whatever the error, go on with the next.  found is the signal
\* that appeared (0 for none) and tried the number of waits made.
RECURSIVE WaitFrom(_, _)
WaitFrom(waits, k) ==
    IF k > Len(waits) THEN [raised |-> FALSE, found |-> 0, tried |-> k - 1]
    ELSE IF waits[k] = "found" THEN [raised |-> FALSE, found |-> k, tried |-> k]
    ELSE WaitFrom(waits, k + 1)

\* _wait_for_content, lines 428-454, and lines 280-312 of extract_posts: the
\* loop over the signals, a warning when none appeared, then the pause, whose
\* error is caught (line 453; line 310).  The function returns nothing; the
\* value kept here is what it did.
WaitForContent(pg) ==
    LET waited == WaitFrom(pg.waits, 1)
    IN  IF waited.raised THEN Raises
        ELSE Gives([found |-> waited.found,
                    tried |-> waited.tried,
                    warned |-> waited.found = 0])

WaitInit ==
    /\ NoRun
    /\ call \in { [fn |-> "_wait_for_content", arg |-> pg] :
                    pg \in WaitPages(selectors_to_wait) }
              \cup { [fn |-> "extract_posts", arg |-> pg] :
                       pg \in WaitPages(wait_strategies) }
    /\ ret = NoReturn

CallWaitForContent ==
    /\ call.fn \in {"_wait_for_content", "extract_posts"}
    /\ ~ret.done
    /\ ret' = WaitForContent(call.arg)
    /\ UNCHANGED << call, runVars >>

WaitNext == CallWaitForContent

WaitSpec == WaitInit /\ [][WaitNext]_vars

\* ------------------------------------------------------------- parse_cookies alone
\* The facebookCookies inputs given to parse_cookies: empty, text that is no
\* JSON, or a JSON list of cookies, each with its sameSite entry.
ParseInputs ==
    { [form |-> "empty", cookies |-> <<>>], [form |-> "invalid", cookies |-> <<>>] }
    \cup { [form |-> "list", cookies |-> c] :
             c \in SeqsUpTo(SameSiteInputs, MaxCookieList) }

ParseInit ==
    /\ NoRun
    /\ call \in { [fn |-> "parse_cookies", arg |-> facebook_cookies] :
                    facebook_cookies \in ParseInputs }
    /\ ret = NoReturn

\* parse_cookies returns playwright_cookies (kept by their sameSite) or an
\* error other than JSONDecodeError leaves it.
CallParseCookies ==
    /\ call.fn = "parse_cookies"
    /\ ~ret.done
    /\ ret' = LET parsed == ParseCookies(call.arg)
              IN  IF parsed.raised THEN Raises ELSE Gives(parsed.cookies)
    /\ UNCHANGED << call, runVars >>

ParseNext == CallParseCookies

ParseSpec == ParseInit /\ [][ParseNext]_vars

\* ------------------------------------------------------------- runs on one scraper object
\* A scraper object, made without debug, before its first call of
\* search_posts.  During a run, ret.value keeps the ids the object had seen when the run began (before)
\* and the ids of records that a run which has ended found and did not hand
\* to its caller (undelivered): cut off by posts[:max_posts].
RunsInit ==
    /\ Init
    /\ entry = "cli"
    /\ debug = FALSE

RunsSearchPosts ==
    \E use_cookies \in BOOLEAN, failAt \in SetupFailures :
        /\ SearchPostsWith(use_cookies, failAt)
        /\ ret' = [ret EXCEPT !.value =
                      [before |-> scraped_post_ids,
                       undelivered |-> IF ret.value = <<>> THEN {}
                                       ELSE ret.value.undelivered]]

RunsCleanup ==
    \E readOk \in BOOLEAN :
        /\ CleanupWith(readOk)
        /\ ret' = [ret EXCEPT !.value.undelivered =
                      @ \cup (Range(posts) \ Range(pending.posts))]

RunsNext ==
    \/ RunsSearchPosts
    \/ VerifyAuthentication
    \/ BuildUrl
    \/ NavigateAttempt
    \/ PrepareContent
    \/ ScrapePass
    \/ ScrapeReturn
    \/ RunsCleanup
    \/ CallerContinues

RunsSpec == RunsInit /\ [][RunsNext]_vars

\* ------------------------------------------------------------- the cookie store in a run
\* The calls setup_browser makes on the cookie store if it wrote back the
\* cookies it loaded.
StoreCallsOfSetupWritingBack(use_cookies, failAt) ==
    IF use_cookies /\ failAt \notin {"launch", "new_context"}
    THEN <<"load", "save">> ELSE <<>>

\* The calls setup_browser makes on the cookie store, lines 149-155:
\* load_cookies_from_file when use_cookies is set and the context exists.
StoreCallsOfSetup(use_cookies, failAt) ==
    IF use_cookies /\ failAt \notin {"launch", "new_context"}
    THEN <<"load">> ELSE <<>>

\* The calls cleanup makes on the cookie store, lines 1118-1124:
\* save_cookies_to_file when there is a context whose cookies were read and
\* are not empty.
StoreCallsOfCleanup(ctx, cookies, readOk) ==
    IF ctx # "none" /\ readOk /\ cookies # {} THEN <<"save">> ELSE <<>>

\* A scraper object before its first call of search_posts; ret.value keeps
\* the calls the current run has made on the cookie store, in their order.
CookieInit ==
    /\ Init
    /\ entry = "cli"
    /\ debug = FALSE

StoreSearchPosts ==
    \E use_cookies \in BOOLEAN, failAt \in SetupFailures :
        /\ SearchPostsWith(use_cookies, failAt)
        /\ ret' = [ret EXCEPT !.value = StoreCallsOfSetup(use_cookies, failAt)]

StoreCleanup ==
    \E readOk \in BOOLEAN :
        /\ CleanupWith(readOk)
        /\ ret' = [ret EXCEPT !.value = @ \o StoreCallsOfCleanup(context, jar, readOk)]

CookieNext ==
    \/ StoreSearchPosts
    \/ VerifyAuthentication
    \/ BuildUrl
    \/ NavigateAttempt
    \/ PrepareContent
    \/ ScrapePass
    \/ ScrapeReturn
    \/ StoreCleanup
    \/ CallerContinues

CookieSpec == CookieInit /\ [][CookieNext]_vars

\* ------------------------------------------------------------- _navigate_to_page alone
\* What a page load is to the test of line 419.
LoadKind(load) ==
    IF load.raised THEN "raised" ELSE IF load.long THEN "long" ELSE "short"

\* search_posts has reached line 244 of a first run: _navigate_to_page
\* begins.  ret.value keeps the page loads the call has issued, in their
\* order, each by its kind.
NavInit ==
    /\ entry = "cli"
    /\ pc = "navigate"
    /\ debug \in BOOLEAN
    /\ request \in {"query", "url", "both"}
    /\ max_posts = 1
    /\ feed = [scripted |-> FALSE, pos |-> 0]
    /\ browser = "open" /\ context = "open" /\ page = "open"
    /\ cookie_file = [exists |-> FALSE, cookies |-> {}]
    /\ cookie_save = "none"
    /\ jar \in { {}, SiteCookies }
    /\ auth_content = <<>>
    /\ is_authenticated = "unset"
    /\ attempt = 0 /\ variant = 0
    /\ target = UrlFor(request)
    /\ navOutcome = "none"
    /\ landing = NoLoad
    /\ call = [fn |-> "_navigate_to_page", arg |-> target]
    /\ ret = NoReturn
    /\ posts = <<>>
    /\ scraped_post_ids = {}
    /\ no_new_posts_count = 0
    /\ emptyPasses = 0
    /\ pending = NoOutcome
    /\ outcome = NoOutcome

ObservedNavigateAttempt ==
    \E load \in Loads :
        /\ NavigateAttemptWith(load)
        /\ ret' = [ret EXCEPT !.value = Append(@, LoadKind(load))]

NavNext == ObservedNavigateAttempt

NavSpec == NavInit /\ [][NavNext]_vars

\* ------------------------------------------------------------- _scrape_posts alone
\* search_posts has reached line 260 with the target page loaded: the loop of
\* _scrape_posts begins.  The scraper object may have made runs before;
\* call.arg keeps the ids it had seen when the loop began, and ret keeps what
\* _extract_posts_from_page gave back in the latest pass (new_posts).
LoopInit ==
    /\ entry = "cli"
    /\ pc = "scrape"
    /\ debug \in BOOLEAN
    /\ request = "query"
    /\ \/ /\ max_posts \in 1..MaxPosts
          /\ feed = [scripted |-> FALSE, pos |-> 0]
       \/ /\ max_posts = E2EMaxPosts
          /\ feed = [scripted |-> TRUE, pos |-> 0]
    /\ browser = "open" /\ context = "open" /\ page = "open"
    /\ cookie_file = [exists |-> FALSE, cookies |-> {}]
    /\ cookie_save = "none"
    /\ jar = SiteCookies
    /\ auth_content = <<>>
    /\ is_authenticated = "unset"
    /\ attempt = 0 /\ variant = 0
    /\ target = "built"
    /\ navOutcome = "none"
    /\ landing = NoLoad
    /\ scraped_post_ids \in SUBSET PostIds
    /\ call = [fn |-> "_scrape_posts", arg |-> scraped_post_ids]
    /\ ret = NoReturn
    /\ posts = <<>>
    /\ no_new_posts_count = 0
    /\ emptyPasses = 0
    /\ pending = NoOutcome
    /\ outcome = NoOutcome

\* A pass of the loop; the extraction of line 500 is reached unless the
\* text_content of line 497 raised.
ObservedPass ==
    \E elements \in PassSnapshots, fail \in PassFailures :
        /\ Pass(elements, fail)
        /\ ret' = IF fail = "text_content" THEN ret
                  ELSE Gives(ExtractPosts(elements))

LoopNext ==
    \/ ObservedPass
    \/ ScrapeReturn

LoopSpec == LoopInit /\ [][LoopNext]_vars

\* ------------------------------------------------------------- properties
NoDuplicates(q) == \A i, j \in 1..Len(q) : i # j => q[i] # q[j]

\* C1: in every run of _scrape_posts, whatever the snapshots repeat inside a
\* pass or across passes, no two records of the list it builds and returns
\* have the same postId.
C1_UniqueFingerprints ==
    entry = "cli" =>
        /\ NoDuplicates(posts)
        /\ NoDuplicates(pending.posts)
        /\ NoDuplicates(outcome.posts)

\* A run over the end-to-end page, whose second pass repeats record 4 of the
\* first, has returned all six records.
C1_Witness ==
    /\ entry = "cli" /\ pc = "cleanup" /\ feed.scripted
    /\ pending.kind = "returned"
    /\ Range(pending.posts) = 1..6

\* C2: the list _scrape_posts returns has at most max_posts records, whichever
\* condition ended the loop.
C2_AtMostMaxResults ==
    (entry = "cli" /\ pending.kind = "returned") =>
        /\ Len(pending.posts) <= max_posts
        /\ outcome.kind = "returned" => Len(outcome.posts) <= max_posts

\* One pass yielded more new records than remained to reach max_posts.
C2_Witness ==
    /\ entry = "cli" /\ pc = "cleanup" /\ pending.kind = "returned"
    /\ Len(posts) > max_posts
    /\ Len(pending.posts) = max_posts

\* C3: the loop of _scrape_posts terminates, never makes a pass after 5
\* consecutive passes that added nothing, and when it returns with fewer than
\* max_posts records exactly the last 5 passes added nothing.
C3_LoopTerminates ==
    /\ [](pc = "scrape" => emptyPasses <= max_no_new_posts)
    /\ []((pc = "scrape" /\ emptyPasses = max_no_new_posts) => ~LoopContinues)
    /\ []((entry = "cli" /\ pending.kind = "returned" /\ Len(posts) < max_posts)
            => emptyPasses = max_no_new_posts)
    /\ ((pc = "scrape") ~> (pc # "scrape"))

\* The loop returned some records, fewer than max_posts, after 5 passes that
\* added nothing.
C3_Witness ==
    /\ entry = "cli" /\ pc = "cleanup" /\ pending.kind = "returned"
    /\ posts # <<>>
    /\ Len(posts) < max_posts
    /\ emptyPasses = max_no_new_posts

\* The run is the first of its scraper object to find records: every id the
\* object has seen was found by this run.
FirstRecords == scraped_post_ids = Range(posts)

\* A run of search_posts over the end-to-end page, asked for E2EMaxPosts
\* records, has returned to its caller.
E2ERunReturned ==
    /\ entry = "cli" /\ pc = "done"
    /\ feed.scripted /\ max_posts = E2EMaxPosts
    /\ outcome.kind = "returned"
    /\ FirstRecords

C5_ExhaustionIsFatal ==
    navOutcome \in {"exhausted", "raised"} =>
        /\ pending.kind = "raised"
        /\ pc \notin {"content", "scrape"}

\* C6 as stated: a run of search_posts that ends with an error after records
\* were accumulated delivers those records with the failure reason.
C6_PartialResultsDelivered ==
    (entry = "cli" /\ pc = "done" /\ outcome.kind = "raised" /\ posts # <<>>) =>
        /\ outcome.reason # "none"
        /\ outcome.posts = Truncate(posts, max_posts)

\* C7 as stated: when a run has returned or raised, the page, the browser
\* context and the browser it acquired are closed.
C7_ResourcesClosed ==
    pc = "done" =>
        /\ page # "open"
        /\ context # "open"
        /\ browser # "open"

\* The step in which cleanup runs.
Teardown == pc = "cleanup" /\ pc' = "done"

C9_AuthNeverEndsRun ==
    [][/\ pc = "verify_authentication" => pc' = "build_url"
       /\ pc = "a_set_cookies" => pc' = "a_navigate"]_vars

\* C10 as stated: the verdict is "authenticated" only for a content with an
\* authenticated marker and without any login marker.
C10_VerdictFollowsMarkers ==
    is_authenticated = "yes" =>
        /\ \E indicator \in auth_indicators : Contains(auth_content, indicator)
        /\ \A indicator \in login_indicators : ~Contains(auth_content, indicator)

\* The selectors of the page that do not raise and match at least one element.
Matching(dom) ==
    { k \in 1..Len(dom.selectors) :
        ~dom.selectors[k].raises /\ dom.selectors[k].elements # <<>> }

C12_SelectorErrorsAreSkipped ==
    ret.done =>
        LET dom == call.arg
        IN  /\ ~ret.raised
            /\ Matching(dom) = {} => ret.value.posts = <<>>
            /\ (~dom.wait_raises /\ Matching(dom) # {}) =>
                  /\ ret.value.selector_used \in Matching(dom)
                  /\ \A k \in 1..(ret.value.selector_used - 1) :
                        dom.selectors[k].raises \/ dom.selectors[k].elements = <<>>

\* The first selector raised and the pass returned the records of a later one.
C12_Witness ==
    /\ ret.done
    /\ call.arg.selectors[1].raises
    /\ ret.value.selector_used > 1
    /\ ret.value.posts # <<>>

\* The positions of text that hold a suffix letter, in either case.
SuffixLetters(text) ==
    { i \in 1..Len(text) : Upper(text[i]) \in {"K", "M", "B"} }

\* C17 as stated: both count parsers give 1200 for "1.2K", 3000000 for "3M",
\* 500 for "500", 0 for "" and 2500000000 for "2.5B", and for a mantissa
\* followed by K, M or B in either letter case, thousands separators and
\* white space set aside, the mantissa times 10^3, 10^6 or 10^9 truncated to
\* an integer.
C17_MantissaTimesSuffix ==
    ret.done =>
        LET clean == Without(call.arg, {",", " "})
            mantissa == SubSeq(clean, 1, Len(clean) - 1)
        IN  /\ call.arg = <<"1", ".", "2", "K">> => ret = Gives(<<"1", "2", "0", "0">>)
            /\ call.arg = <<"3", "M">> =>
                  ret = Gives(<<"3", "0", "0", "0", "0", "0", "0">>)
            /\ call.arg = <<"5", "0", "0">> => ret = Gives(<<"5", "0", "0">>)
            /\ call.arg = <<>> => ret = Gives(<<"0">>)
            /\ call.arg = <<"2", ".", "5", "B">> =>
                  ret = Gives(<<"2", "5", "0", "0", "0", "0", "0", "0", "0", "0">>)
            /\ ( /\ Len(clean) >= 2
                 /\ SuffixLetters(clean) = {Len(clean)}
                 /\ FloatKind(mantissa) = "number"
                 /\ Head(mantissa) # "-" ) =>
                  ret = Gives(Scaled(mantissa, SuffixPower(Upper(clean[Len(clean)]))))

\* C18 as stated: both count parsers return a non-negative integer and never
\* raise, and give 0 for a text without digits (a bare suffix among them) and
\* for a text with several suffix letters.
C18_NonNegativeNeverRaises ==
    ret.done =>
        /\ ~ret.raised
        /\ ret.value # <<>> /\ Head(ret.value) # "-"
        /\ ( \/ \A i \in 1..Len(call.arg) : call.arg[i] \notin Digits
             \/ Cardinality(SuffixLetters(call.arg)) >= 2 ) =>
              ret.value = <<"0">>

\* The text holds one of the relative phrases: just now, few seconds, moments
\* ago, yesterday, or the word minute, hour, day or week (a word that only
\* ends in "day", as "today" or "Monday", is not one).
RelativePhrase(text) ==
    LET lower == LowerStr(text)
    IN  \/ \E phrase \in { <<"j", "u", "s", "t", " ", "n", "o", "w">>, <<"f", "e", "w", " ", "s", "e", "c", "o", "n", "d", "s">>, <<"m", "o", "m", "e", "n", "t", "s", " ", "a", "g", "o">>,
                           <<"y", "e", "s", "t", "e", "r", "d", "a", "y">>, <<"m", "i", "n", "u", "t", "e">>, <<"h", "o", "u", "r">>, <<"w", "e", "e", "k">> } :
              Contains(lower, phrase)
        \/ \E i \in 1..Len(lower) :
              /\ StartsWith(lower, i, <<"d", "a", "y">>)
              /\ (i = 1 \/ lower[i - 1] \notin Letters)

\* The text is written in one of the absolute date formats.
AbsoluteDate(text) ==
    \E k \in 1..Len(date_patterns) : Strptime(text, date_patterns[k]) # <<>>

\* C19 as stated: with now fixed, the time parser gives now minus 2 hours for
\* "2 hours ago", now minus 1 day for "yesterday", now for "just now", and
\* None for every text that is neither a relative phrase nor an absolute
\* date, a weekday name and "today" among them.
C19_NoneUnlessRelativeOrAbsolute ==
    ret.done =>
        /\ call.arg = <<"2", " ", "h", "o", "u", "r", "s", " ", "a", "g", "o">> => ret.value = Ago(120)
        /\ call.arg = <<"y", "e", "s", "t", "e", "r", "d", "a", "y">> => ret.value = Ago(1440)
        /\ call.arg = <<"j", "u", "s", "t", " ", "n", "o", "w">> => ret.value = Ago(0)
        /\ (~RelativePhrase(call.arg) /\ ~AbsoluteDate(call.arg)) =>
              ret.value = NoTime

\* C20 as stated: a relative href is resolved against https://www.facebook.com
\* and two hrefs that differ only in their tracking parameters get the same id.
C20_SameIdForTrackingVariants ==
    ret.done =>
        /\ \A k \in 1..2 :
              Head(call.arg[k]) = "/" =>
                  StartsWith(ret.value.clean[k], 1,
                             <<"h", "t", "t", "p", "s", ":", "/", "/", "w", "w", "w", ".", "f", "a", "c", "e", "b", "o", "o", "k", ".", "c", "o", "m">> \o <<"/">>)
        /\ ret.value.ids[1] = ret.value.ids[2]

\* C13: navigation reports success for an attempt exactly when the load did
\* not raise and the body text has more than 100 characters; the status of
\* the response and blocking phrases in the page play no part.
C13_SuccessIsLongBody ==
    entry = "cli" =>
        /\ navOutcome = "loaded" => (~landing.raised /\ landing.long)
        /\ navOutcome = "exhausted" => (~landing.raised /\ ~landing.long)
        /\ navOutcome = "raised" => landing.raised

\* A navigation that reported success on a page that came with an error
\* status and shows a blocking phrase.
C13_Witness ==
    /\ entry = "cli" /\ pc = "content" /\ navOutcome = "loaded"
    /\ landing.long /\ ~landing.status_ok /\ landing.blocked

\* C13 as stated: success is reported only for a non-error response with a
\* long enough body and without a blocking phrase.
C13_ThreeConditions ==
    (entry = "cli" /\ navOutcome = "loaded") =>
        (landing.status_ok /\ landing.long /\ ~landing.blocked)

\* C14: within one navigation every variant is tried once, in order, in each
\* round of attempts, and a round ends before the next one starts: after
\* (attempt, variant) comes (attempt, variant + 1), and after the last variant
\* comes (attempt + 1, first variant).
C14_RoundsOverVariants ==
    [][(pc = "navigate" /\ pc' = "navigate") =>
          IF variant < NumVariants - 1
          THEN attempt' = attempt /\ variant' = variant + 1
          ELSE attempt' = attempt + 1 /\ variant' = 0]_vars

\* The second round of attempts starts on the first variant.
C14_Witness ==
    pc = "navigate" /\ attempt = 1 /\ variant = 0

\* C14 as stated: all attempts on a variant happen before any attempt on the
\* next one.
C14_VariantExhaustedFirst ==
    [][(pc = "navigate" /\ pc' = "navigate") =>
          IF attempt < max_retries - 1
          THEN variant' = variant /\ attempt' = attempt + 1
          ELSE variant' = variant + 1 /\ attempt' = 0]_vars

C16_ActorAtMostMaxPosts ==
    (entry = "actor" /\ outcome.kind = "returned") =>
        Len(outcome.posts) <= max_posts


\* A step of _scrape_posts: a pass of the loop, or the return after it.
LoopStep == entry = "cli" /\ pc = "scrape"

\* C21: while _scrape_posts runs, no_new_posts_count is the number of the most
\* recent consecutive passes that appended no record and lies in 0..5; the
\* loop makes another pass exactly when len(posts) < max_posts and fewer than
\* 5 passes in a row appended nothing, and returns otherwise, so that on
\* return max_posts was reached or the last 5 passes appended nothing.
C21_CounterTracksEmptyPasses ==
    /\ [](LoopStep =>
            /\ no_new_posts_count = emptyPasses
            /\ no_new_posts_count \in 0..max_no_new_posts)
    /\ [][LoopStep =>
            IF Len(posts) < max_posts /\ emptyPasses < max_no_new_posts
            THEN pending'.kind # "returned"
            ELSE pending'.kind = "returned" /\ posts' = posts]_vars
    /\ []((entry = "cli" /\ pending.kind = "returned") =>
            \/ Len(posts) >= max_posts
            \/ emptyPasses = max_no_new_posts)

\* The loop, with a record in hand and below max_posts, has just made four
\* passes in a row that appended nothing and is about to make another.
C21_Witness ==
    /\ LoopStep
    /\ posts # <<>>
    /\ Len(posts) < max_posts
    /\ no_new_posts_count = max_no_new_posts - 1
    /\ emptyPasses = max_no_new_posts - 1

\* A pass of the loop that ran to its end, and the records it appended.
CompletedPass == LoopStep /\ pc' = "scrape"
Appended == SubSeq(posts', Len(posts) + 1, Len(posts'))

\* How many records of q have the postId id.
Occurrences(q, id) == Cardinality({ i \in 1..Len(q) : q[i] = id })

\* C22: in a run of the loop that began with no id seen, the postIds of posts
\* are at every moment the ids the object has seen.  In every pass, a record
\* that was extracted is appended if and only if its postId was not seen
\* before (in an earlier pass or earlier in this one), its id is added to the
\* seen ids, and the records appended before stay as they were.
C22_AppendedIffUnseen ==
    /\ [](call.arg = {} => Range(posts) = scraped_post_ids)
    /\ [][CompletedPass =>
            /\ Len(posts') >= Len(posts)
            /\ SubSeq(posts', 1, Len(posts)) = posts
            /\ \A id \in PostIds :
                  Occurrences(Appended, id) =
                      IF id \in Range(ret'.value) /\ id \notin scraped_post_ids
                      THEN 1 ELSE 0
            /\ scraped_post_ids' = scraped_post_ids \cup Range(Appended)]_vars

\* The second pass over the end-to-end page extracted records 4, 5 and 6, of
\* which 4 had been seen, and 5 and 6 were appended to the first four.
C22_Witness ==
    /\ call.arg = {}
    /\ pc = "scrape"
    /\ ret.value = <<4, 5, 6>>
    /\ posts = <<1, 2, 3, 4, 5, 6>>
    /\ scraped_post_ids = 1..6

\* The position of the first record of q with the postId id.
FirstPosition(q, id) ==
    CHOOSE i \in 1..Len(q) : q[i] = id /\ \A j \in 1..(i - 1) : q[j] # id

\* C23: posts is in order of discovery.  A pass leaves the records of the
\* earlier passes where they were and puts its own after them, in the order
\* in which they were extracted; the list returned is made of the first
\* max_posts records of posts, in their order, or of all when there are fewer.
C23_DiscoveryOrder ==
    /\ [][CompletedPass =>
            /\ Len(posts') >= Len(posts)
            /\ \A i \in 1..Len(posts) : posts'[i] = posts[i]
            /\ Range(Appended) \subseteq Range(ret'.value)
            /\ \A i, j \in 1..Len(Appended) :
                  i < j => FirstPosition(ret'.value, Appended[i])
                             < FirstPosition(ret'.value, Appended[j])]_vars
    /\ [][(LoopStep /\ pending'.kind = "returned") =>
            /\ Len(pending'.posts) =
                  IF Len(posts) < max_posts THEN Len(posts) ELSE max_posts
            /\ \A i \in 1..Len(pending'.posts) : pending'.posts[i] = posts[i]]_vars

\* Two passes found a record each, the later one the record with the smaller
\* id, and the list was returned in that order.
C23_Witness ==
    /\ pc = "cleanup"
    /\ pending = Returned(<<2, 1>>)
    /\ ret.value = <<1>>

\* The signals of the page that appear within their timeout.
Appearing(pg) == { k \in DOMAIN pg.waits : pg.waits[k] = "found" }

\* C24: the wait for content never raises, whatever the signals and the pause
\* after them do.  It waits for the signals in the order of the list and
\* stops at the first that appears: the signal found is the first appearing
\* one, no signal after it is waited for, and when none appears all were
\* waited for and the function still returns.
C24_WaitNeverFails ==
    ret.done =>
        LET pg == call.arg
        IN  /\ ~ret.raised
            /\ IF Appearing(pg) = {}
               THEN /\ ret.value.found = 0
                    /\ ret.value.tried = Len(pg.waits)
               ELSE /\ ret.value.found \in Appearing(pg)
                    /\ \A k \in Appearing(pg) : ret.value.found <= k
                    /\ ret.value.tried = ret.value.found

\* No signal of _wait_for_content appeared, one of the waits failed with an
\* error that is no timeout, the pause raised, and the function returned.
C24_Witness ==
    /\ call.fn = "_wait_for_content"
    /\ Appearing(call.arg) = {}
    /\ \E k \in DOMAIN call.arg.waits : call.arg.waits[k] = "error"
    /\ call.arg.settle_raises
    /\ ret.done /\ ~ret.raised

\* The positions of a run at which the page is navigated or read.
PageOperations == {"verify_authentication", "navigate", "content", "scrape"}

\* C25: in a run of search_posts the cookie store is loaded at most once and
\* saved at most once, the load first.  The load is made when the run begins,
\* before any step that navigates or reads the page; the save is made by
\* cleanup, after the last such step, and no call on the store follows it in
\* the run.
C25_LoadFirstSaveLast ==
    /\ [](ret.value \in { <<>>, <<"load">>, <<"save">>, <<"load", "save">> })
    /\ []((pc \in PageOperations \cup {"build_url", "cleanup"}) =>
             ret.value \in { <<>>, <<"load">> })
    /\ [][ret'.value # ret.value =>
            \/ pc = "idle" /\ ret'.value \in { <<>>, <<"load">> }
            \/ /\ pc = "cleanup" /\ pc' = "done"
               /\ ret'.value = ret.value \o <<"save">>]_vars

\* A run that loaded the cookies of the store when it began has returned its
\* records after saving the cookies of the session.
C25_Witness ==
    /\ pc = "done"
    /\ outcome.kind = "returned" /\ outcome.posts # <<>>
    /\ ret.value = <<"load", "save">>
    /\ cookie_save = "written"

\* C26 as stated: for a list of cookies, whatever the sameSite entry of each
\* (absent, null, a string in any letter case, an unknown string),
\* parse_cookies hands over one cookie for each cookie of the list, with a
\* sameSite among None, Lax and Strict.
C26_SameSiteAlwaysValid ==
    (ret.done /\ call.arg.form = "list") =>
        /\ ~ret.raised
        /\ Len(ret.value) = Len(call.arg.cookies)
        /\ \A i \in 1..Len(ret.value) : ret.value[i] \in {"None", "Lax", "Strict"}

\* A run of search_posts is under way or has just ended.
InRun == entry = "cli" /\ pc # "idle"

\* C27: the ids a scraper object has seen are never taken out of
\* scraped_post_ids, and no record whose id the object had seen when a run
\* began is in the list that run builds or returns; among the ids so
\* excluded are those of the records an earlier run found and cut off at
\* max_posts.
C27_SeenIdsOutliveTheRun ==
    /\ [][scraped_post_ids \subseteq scraped_post_ids']_vars
    /\ []((InRun /\ pc # "done") =>
            ret.value.undelivered \subseteq ret.value.before)
    /\ [](InRun =>
            /\ ret.value.before \subseteq scraped_post_ids
            /\ Range(posts) \cap ret.value.before = {}
            /\ Range(pending.posts) \cap ret.value.before = {}
            /\ Range(outcome.posts) \cap ret.value.before = {})

\* After a run that found records 1 and 2 and cut off record 2, a run over
\* the end-to-end page has returned records 3 to 6 only.
C27_Witness ==
    /\ pc = "done"
    /\ feed.scripted
    /\ ret.value.undelivered = {2}
    /\ outcome = Returned(<<3, 4, 5, 6>>)

\* C28: in an extraction pass, the first selector in the order of
\* post_selectors that matches an element is the last one the page is asked
\* for; the records returned are those its elements yield, so that the pass
\* returns no record when they yield none, whatever the selectors after it
\* would match.
C28_FirstMatchEndsTheSearch ==
    (ret.done /\ ~call.arg.wait_raises /\ Matching(call.arg) # {}) =>
        LET dom == call.arg
            first == CHOOSE k \in Matching(dom) : \A j \in Matching(dom) : k <= j
        IN  /\ ret.value.consulted = first
            /\ ret.value.selector_used = first
            /\ ret.value.posts = ExtractPosts(dom.selectors[first].elements)
            /\ ExtractPosts(dom.selectors[first].elements) = <<>>
                  => ret.value.posts = <<>>

\* The first matching selector matched an element that yields no record, a
\* later selector matches one that would, and the pass returned no record.
C28_Witness ==
    /\ ret.done
    /\ ret.value.selector_used # 0
    /\ ret.value.posts = <<>>
    /\ \E k \in Matching(call.arg) :
          /\ k > ret.value.consulted
          /\ ExtractPosts(call.arg.selectors[k].elements) # <<>>

\* C29: one call of _navigate_to_page issues at most 6 page loads, 3 rounds
\* over the 2 URL variants, and none after a load whose body text has more
\* than 100 characters: such a load is the last one, and the call goes on
\* loading until it has met one or has issued all 6.
C29_AtMostSixLoads ==
    /\ Len(ret.value) <= 6
    /\ Len(ret.value) <= max_retries * NumVariants
    /\ \A k \in 1..(Len(ret.value) - 1) : ret.value[k] # "long"
    /\ pc = "navigate" =>
          /\ Len(ret.value) = attempt * NumVariants + variant
          /\ Len(ret.value) < 6
          /\ \A k \in 1..Len(ret.value) : ret.value[k] # "long"
    /\ pc # "navigate" =>
          \/ ret.value[Len(ret.value)] = "long"
          \/ Len(ret.value) = 6

\* The call returned at its fourth load, the first with a long body, after
\* a load that raised, a short one and another that raised.
C29_Witness ==
    /\ pc = "content"
    /\ navOutcome = "loaded"
    /\ ret.value = <<"raised", "short", "raised", "long">>

\* C30: a run of the Actor entry point whose input has a searchUrl and no
\* searchQuery passes the validation of the input, and the page it then
\* navigates to is the searchUrl of the input.
C30_ActorNavigatesToSearchUrl ==
    (entry = "actor" /\ request = "url" /\ pc # "idle") =>
        /\ outcome.kind # "rejected"
        /\ target # "none" => target = "given"
====
